---- MODULE Spec2Model ----
(***************************************************************************)
(* Heritage Routes System: the route planning engine and its store.        *)
(*                                                                         *)
(* The store is the MySQL schema (heritage_objects, users, routes,         *)
(* route_objects with their keys and ON DELETE CASCADE foreign keys).      *)
(* The route build is the documented pipeline find_nearest_objects ->      *)
(* build_greedy_route -> save_route_to_db, the save being one InnoDB       *)
(* transaction executed statement by statement.                            *)
(*                                                                         *)
(* Coordinates are in hundredths of a degree; distances are in hundredths  *)
(* of a metre, the scale of DECIMAL(10, 2).                                *)
(***************************************************************************)
EXTENDS Integers, Sequences, FiniteSets, TLC

VARIABLES
    heritage_objects,   \* ids of the rows of table heritage_objects
    routes,             \* table routes: route id -> header row (committed)
    route_objects,      \* table route_objects: set of leg rows (committed)
    auto_increment,     \* next AUTO_INCREMENT value of routes.id
    tx,                 \* the create_route worker and its open transaction
    resp,               \* the response of the last request
    call,               \* one call of the pure function buildRoute
    object_stories,     \* table object_stories: rows (object_id, story), the server cache
    storyCache,         \* map.js storyCache: object id -> text shown for it
    requests,           \* API calls of the page that are in flight
    modal,              \* the ai-modal: shown or hidden, its object and body
    currentRoute,       \* map.js currentRoute
    favoriteRouteIds,   \* map.js favoriteRouteIds
    history,            \* routes-list: the ids of the routes shown as items
    fields,             \* the form: the fields start-lat, start-lon, start-address
    currentStart,       \* map.js currentStart: the point clicked on the map
    panel,              \* route-results: the route drawn on the page, if any
    loading,            \* the build button is disabled (showLoading)
    message,            \* the message shown last (showMessage)
    markers,            \* map.js markers: the object of each placemark on the map
    map,                \* map.js map: null until ymaps.ready runs initMap
    api,                \* the APIClient instance: its token and user
    localStorage        \* window.localStorage: the items auth_token and user

\* the state of the page in the browser
client == <<storyCache, requests, modal, currentRoute, favoriteRouteIds, history, panel,
            loading, message, markers, map, fields, currentStart>>

\* the session of the user in the browser
auth == <<api, localStorage>>

vars == <<heritage_objects, routes, route_objects, auto_increment, tx, resp, call,
          object_stories, client, auth>>

store == <<heritage_objects, routes, route_objects, auto_increment>>

----------------------------------------------------------------------------
(* Bounds of the model *)

MaxRoutes == 2        \* route ids handed out by AUTO_INCREMENT
MaxCandidates == 3    \* longest candidate sequence given to buildRoute
MaxInflight == 2      \* API calls of the page in flight at once

(* Program constants *)

MIN_OBJECTS == 2          \* Field(5, ge=2, le=20)
MAX_OBJECTS == 20
MAX_RADIUS == 5000        \* metres

UserIds == {1, 2}

Coord(lat, lon) == [latitude |-> lat, longitude |-> lon]

\* Reference data: the location of each heritage object id.
ObjectSeed ==
    << Coord(5573, 3762), Coord(5571, 3762), Coord(5574, 3762),
       Coord(5577, 3762) >>

ObjectIds == DOMAIN ObjectSeed

HeritageLocation(id) == ObjectSeed[id]

\* Reference rows the owner of the data removes while the system runs.
RetiredObjects == {3}

\* Start points a request may carry: one with objects nearby, one with none
\* within the radius, one outside Moscow.
RedSquare == Coord(5572, 3762)

StartPoints == { RedSquare, Coord(5590, 3790), Coord(5610, 3762) }

\* objects_count values a request may carry: the limits and their neighbours
RequestedCounts ==
    { MIN_OBJECTS - 1, MIN_OBJECTS, MIN_OBJECTS + 1, MAX_OBJECTS, MAX_OBJECTS + 1 }

\* start_address values a request may carry: the text of the start-address
\* field, empty, written by the geocoder or typed
StartAddresses == { "", "my street" }

\* POST /api/route requests: every start and count with an address, and one
\* request without an address
RouteRequests ==
    [ start : StartPoints, start_address : {"Red Square"}, objects_count : RequestedCounts ]
    \cup [ start : {RedSquare}, start_address : {""}, objects_count : {MIN_OBJECTS} ]

----------------------------------------------------------------------------
(* Distance function *)

Min(a, b) == IF a <= b THEN a ELSE b

\* a length given in metres, in hundredths of a metre
Meters(m) == 100 * m

\* The values of ST_Distance_Sphere(point1, point2) on the points of the model:
\* the great-circle distance on the sphere of radius 6370986 m, rounded half up
\* to two decimals. A row is <<latitude1, longitude1, latitude2, longitude2,
\* distance>>, each ordered pair of points computed on its own. Two rows with
\* the same first point hold the same distance only where the two lengths are
\* the same on the sphere, and no row is within 0.01 m of a radius of a query,
\* so comparing the rounded values orders and filters as the query does.
SphereRows ==
    {
      <<5570, 3760, 5570, 3760, 0>>, <<5570, 3760, 5570, 3762, 125322>>, <<5570, 3760, 5570, 3770, 626611>>,
      <<5570, 3760, 5571, 3762, 167529>>, <<5570, 3760, 5572, 3760, 222389>>, <<5570, 3760, 5572, 3762, 255254>>,
      <<5570, 3760, 5572, 3770, 664754>>, <<5570, 3760, 5573, 3762, 356331>>, <<5570, 3760, 5574, 3762, 462080>>,
      <<5570, 3760, 5574, 3770, 768159>>, <<5570, 3760, 5575, 3760, 555973>>, <<5570, 3760, 5575, 3762, 569905>>,
      <<5570, 3760, 5575, 3770, 837404>>, <<5570, 3760, 5576, 3762, 678819>>, <<5570, 3760, 5577, 3762, 788369>>,
      <<5570, 3760, 5580, 3760, 1111947>>, <<5570, 3760, 5580, 3762, 1118969>>, <<5570, 3760, 5580, 3770, 1275955>>,
      <<5570, 3760, 5590, 3790, 2908844>>, <<5570, 3760, 5610, 3762, 4449534>>, <<5570, 3762, 5570, 3760, 125322>>,
      <<5570, 3762, 5570, 3762, 0>>, <<5570, 3762, 5570, 3770, 501289>>, <<5570, 3762, 5571, 3762, 111195>>,
      <<5570, 3762, 5572, 3760, 255254>>, <<5570, 3762, 5572, 3762, 222389>>, <<5570, 3762, 5572, 3770, 548287>>,
      <<5570, 3762, 5573, 3762, 333584>>, <<5570, 3762, 5574, 3762, 444779>>, <<5570, 3762, 5574, 3770, 669971>>,
      <<5570, 3762, 5575, 3760, 569905>>, <<5570, 3762, 5575, 3762, 555973>>, <<5570, 3762, 5575, 3770, 748382>>,
      <<5570, 3762, 5576, 3762, 667168>>, <<5570, 3762, 5577, 3762, 778363>>, <<5570, 3762, 5580, 3760, 1118969>>,
      <<5570, 3762, 5580, 3762, 1111947>>, <<5570, 3762, 5580, 3770, 1219456>>, <<5570, 3762, 5590, 3790, 2829884>>,
      <<5570, 3762, 5610, 3762, 4447787>>, <<5570, 3770, 5570, 3760, 626611>>, <<5570, 3770, 5570, 3762, 501289>>,
      <<5570, 3770, 5570, 3770, 0>>, <<5570, 3770, 5571, 3762, 513411>>, <<5570, 3770, 5572, 3760, 664754>>,
      <<5570, 3770, 5572, 3762, 548287>>, <<5570, 3770, 5572, 3770, 222389>>, <<5570, 3770, 5573, 3762, 601977>>,
      <<5570, 3770, 5574, 3762, 669971>>, <<5570, 3770, 5574, 3770, 444779>>, <<5570, 3770, 5575, 3760, 837404>>,
      <<5570, 3770, 5575, 3762, 748382>>, <<5570, 3770, 5575, 3770, 555973>>, <<5570, 3770, 5576, 3762, 834277>>,
      <<5570, 3770, 5577, 3762, 925575>>, <<5570, 3770, 5580, 3760, 1275955>>, <<5570, 3770, 5580, 3762, 1219456>>,
      <<5570, 3770, 5580, 3770, 1111947>>, <<5570, 3770, 5590, 3790, 2551122>>, <<5570, 3770, 5610, 3762, 4475659>>,
      <<5571, 3762, 5570, 3760, 167529>>, <<5571, 3762, 5570, 3762, 111195>>, <<5571, 3762, 5570, 3770, 513411>>,
      <<5571, 3762, 5571, 3762, 0>>, <<5571, 3762, 5572, 3760, 167505>>, <<5571, 3762, 5572, 3762, 111195>>,
      <<5571, 3762, 5572, 3770, 513285>>, <<5571, 3762, 5573, 3762, 222389>>, <<5571, 3762, 5574, 3762, 333584>>,
      <<5571, 3762, 5574, 3770, 601870>>, <<5571, 3762, 5575, 3760, 462071>>, <<5571, 3762, 5575, 3762, 444779>>,
      <<5571, 3762, 5575, 3770, 669875>>, <<5571, 3762, 5576, 3762, 555973>>, <<5571, 3762, 5577, 3762, 667168>>,
      <<5571, 3762, 5580, 3760, 1008547>>, <<5571, 3762, 5580, 3762, 1000752>>, <<5571, 3762, 5580, 3770, 1118967>>,
      <<5571, 3762, 5590, 3790, 2743219>>, <<5571, 3762, 5610, 3762, 4336593>>, <<5572, 3760, 5570, 3760, 222389>>,
      <<5572, 3760, 5570, 3762, 255254>>, <<5572, 3760, 5570, 3770, 664754>>, <<5572, 3760, 5571, 3762, 167505>>,
      <<5572, 3760, 5572, 3760, 0>>, <<5572, 3760, 5572, 3762, 125258>>, <<5572, 3760, 5572, 3770, 626290>>,
      <<5572, 3760, 5573, 3762, 167481>>, <<5572, 3760, 5574, 3762, 255223>>, <<5572, 3760, 5574, 3770, 664451>>,
      <<5572, 3760, 5575, 3760, 333584>>, <<5572, 3760, 5575, 3762, 356309>>, <<5572, 3760, 5575, 3770, 709378>>,
      <<5572, 3760, 5576, 3762, 462062>>, <<5572, 3760, 5577, 3762, 569891>>, <<5572, 3760, 5580, 3760, 889557>>,
      <<5572, 3760, 5580, 3762, 898315>>, <<5572, 3760, 5580, 3770, 1087542>>, <<5572, 3760, 5590, 3790, 2742241>>,
      <<5572, 3760, 5610, 3762, 4227236>>, <<5572, 3762, 5570, 3760, 255254>>, <<5572, 3762, 5570, 3762, 222389>>,
      <<5572, 3762, 5570, 3770, 548287>>, <<5572, 3762, 5571, 3762, 111195>>, <<5572, 3762, 5572, 3760, 125258>>,
      <<5572, 3762, 5572, 3762, 0>>, <<5572, 3762, 5572, 3770, 501032>>, <<5572, 3762, 5573, 3762, 111195>>,
      <<5572, 3762, 5574, 3762, 222389>>, <<5572, 3762, 5574, 3770, 548053>>, <<5572, 3762, 5575, 3760, 356309>>,
      <<5572, 3762, 5575, 3762, 333584>>, <<5572, 3762, 5575, 3770, 601763>>, <<5572, 3762, 5576, 3762, 444779>>,
      <<5572, 3762, 5577, 3762, 555973>>, <<5572, 3762, 5580, 3760, 898315>>, <<5572, 3762, 5580, 3762, 889557>>,
      <<5572, 3762, 5580, 3770, 1020701>>, <<5572, 3762, 5590, 3790, 2658381>>, <<5572, 3762, 5610, 3762, 4225398>>,
      <<5572, 3770, 5570, 3760, 664754>>, <<5572, 3770, 5570, 3762, 548287>>, <<5572, 3770, 5570, 3770, 222389>>,
      <<5572, 3770, 5571, 3762, 513285>>, <<5572, 3770, 5572, 3760, 626290>>, <<5572, 3770, 5572, 3762, 501032>>,
      <<5572, 3770, 5572, 3770, 0>>, <<5572, 3770, 5573, 3762, 513160>>, <<5572, 3770, 5574, 3762, 548053>>,
      <<5572, 3770, 5574, 3770, 222389>>, <<5572, 3770, 5575, 3760, 709378>>, <<5572, 3770, 5575, 3762, 601763>>,
      <<5572, 3770, 5575, 3770, 333584>>, <<5572, 3770, 5576, 3762, 669779>>, <<5572, 3770, 5577, 3762, 748210>>,
      <<5572, 3770, 5580, 3760, 1087542>>, <<5572, 3770, 5580, 3762, 1020701>>, <<5572, 3770, 5580, 3770, 889557>>,
      <<5572, 3770, 5590, 3790, 2359606>>, <<5572, 3770, 5610, 3762, 4254712>>, <<5573, 3762, 5570, 3760, 356331>>,
      <<5573, 3762, 5570, 3762, 333584>>, <<5573, 3762, 5570, 3770, 601977>>, <<5573, 3762, 5571, 3762, 222389>>,
      <<5573, 3762, 5572, 3760, 167481>>, <<5573, 3762, 5572, 3762, 111195>>, <<5573, 3762, 5572, 3770, 513160>>,
      <<5573, 3762, 5573, 3762, 0>>, <<5573, 3762, 5574, 3762, 111195>>, <<5573, 3762, 5574, 3770, 513035>>,
      <<5573, 3762, 5575, 3760, 255207>>, <<5573, 3762, 5575, 3762, 222389>>, <<5573, 3762, 5575, 3770, 547935>>,
      <<5573, 3762, 5576, 3762, 333584>>, <<5573, 3762, 5577, 3762, 444779>>, <<5573, 3762, 5580, 3760, 788354>>,
      <<5573, 3762, 5580, 3762, 778363>>, <<5573, 3762, 5580, 3770, 925367>>, <<5573, 3762, 5590, 3790, 2575550>>,
      <<5573, 3762, 5610, 3762, 4114203>>, <<5574, 3762, 5570, 3760, 462080>>, <<5574, 3762, 5570, 3762, 444779>>,
      <<5574, 3762, 5570, 3770, 669971>>, <<5574, 3762, 5571, 3762, 333584>>, <<5574, 3762, 5572, 3760, 255223>>,
      <<5574, 3762, 5572, 3762, 222389>>, <<5574, 3762, 5572, 3770, 548053>>, <<5574, 3762, 5573, 3762, 111195>>,
      <<5574, 3762, 5574, 3762, 0>>, <<5574, 3762, 5574, 3770, 500776>>, <<5574, 3762, 5575, 3760, 167433>>,
      <<5574, 3762, 5575, 3762, 111195>>, <<5574, 3762, 5575, 3770, 512910>>, <<5574, 3762, 5576, 3762, 222389>>,
      <<5574, 3762, 5577, 3762, 333584>>, <<5574, 3762, 5580, 3760, 678795>>, <<5574, 3762, 5580, 3762, 667168>>,
      <<5574, 3762, 5580, 3770, 833969>>, <<5574, 3762, 5590, 3790, 2494925>>, <<5574, 3762, 5610, 3762, 4003009>>,
      <<5574, 3770, 5570, 3760, 768159>>, <<5574, 3770, 5570, 3762, 669971>>, <<5574, 3770, 5570, 3770, 444779>>,
      <<5574, 3770, 5571, 3762, 601870>>, <<5574, 3770, 5572, 3760, 664451>>, <<5574, 3770, 5572, 3762, 548053>>,
      <<5574, 3770, 5572, 3770, 222389>>, <<5574, 3770, 5573, 3762, 513035>>, <<5574, 3770, 5574, 3762, 500776>>,
      <<5574, 3770, 5574, 3770, 0>>, <<5574, 3770, 5575, 3760, 635690>>, <<5574, 3770, 5575, 3762, 512910>>,
      <<5574, 3770, 5575, 3770, 111195>>, <<5574, 3770, 5576, 3762, 547818>>, <<5574, 3770, 5577, 3762, 601549>>,
      <<5574, 3770, 5580, 3760, 914521>>, <<5574, 3770, 5580, 3762, 833969>>, <<5574, 3770, 5580, 3770, 667168>>,
      <<5574, 3770, 5590, 3790, 2173976>>, <<5574, 3770, 5610, 3762, 4033923>>, <<5575, 3760, 5570, 3760, 555973>>,
      <<5575, 3760, 5570, 3762, 569905>>, <<5575, 3760, 5570, 3770, 837404>>, <<5575, 3760, 5571, 3762, 462071>>,
      <<5575, 3760, 5572, 3760, 333584>>, <<5575, 3760, 5572, 3762, 356309>>, <<5575, 3760, 5572, 3770, 709378>>,
      <<5575, 3760, 5573, 3762, 255207>>, <<5575, 3760, 5574, 3762, 167433>>, <<5575, 3760, 5574, 3770, 635690>>,
      <<5575, 3760, 5575, 3760, 0>>, <<5575, 3760, 5575, 3762, 125162>>, <<5575, 3760, 5575, 3770, 625809>>,
      <<5575, 3760, 5576, 3762, 167409>>, <<5575, 3760, 5577, 3762, 255175>>, <<5575, 3760, 5580, 3760, 555973>>,
      <<5575, 3760, 5580, 3762, 569870>>, <<5575, 3760, 5580, 3770, 836804>>, <<5575, 3760, 5590, 3790, 2508610>>,
      <<5575, 3760, 5610, 3762, 3893808>>, <<5575, 3762, 5570, 3760, 569905>>, <<5575, 3762, 5570, 3762, 555973>>,
      <<5575, 3762, 5570, 3770, 748382>>, <<5575, 3762, 5571, 3762, 444779>>, <<5575, 3762, 5572, 3760, 356309>>,
      <<5575, 3762, 5572, 3762, 333584>>, <<5575, 3762, 5572, 3770, 601763>>, <<5575, 3762, 5573, 3762, 222389>>,
      <<5575, 3762, 5574, 3762, 111195>>, <<5575, 3762, 5574, 3770, 512910>>, <<5575, 3762, 5575, 3760, 125162>>,
      <<5575, 3762, 5575, 3762, 0>>, <<5575, 3762, 5575, 3770, 500647>>, <<5575, 3762, 5576, 3762, 111195>>,
      <<5575, 3762, 5577, 3762, 222389>>, <<5575, 3762, 5580, 3760, 569870>>, <<5575, 3762, 5580, 3762, 555973>>,
      <<5575, 3762, 5580, 3770, 747952>>, <<5575, 3762, 5590, 3790, 2416728>>, <<5575, 3762, 5610, 3762, 3891814>>,
      <<5575, 3770, 5570, 3760, 837404>>, <<5575, 3770, 5570, 3762, 748382>>, <<5575, 3770, 5570, 3770, 555973>>,
      <<5575, 3770, 5571, 3762, 669875>>, <<5575, 3770, 5572, 3760, 709378>>, <<5575, 3770, 5572, 3762, 601763>>,
      <<5575, 3770, 5572, 3770, 333584>>, <<5575, 3770, 5573, 3762, 547935>>, <<5575, 3770, 5574, 3762, 512910>>,
      <<5575, 3770, 5574, 3770, 111195>>, <<5575, 3770, 5575, 3760, 625809>>, <<5575, 3770, 5575, 3762, 500647>>,
      <<5575, 3770, 5575, 3770, 0>>, <<5575, 3770, 5576, 3762, 512784>>, <<5575, 3770, 5577, 3762, 547701>>,
      <<5575, 3770, 5580, 3760, 836804>>, <<5575, 3770, 5580, 3762, 747952>>, <<5575, 3770, 5580, 3770, 555973>>,
      <<5575, 3770, 5590, 3790, 2083861>>, <<5575, 3770, 5610, 3762, 3923597>>, <<5576, 3762, 5570, 3760, 678819>>,
      <<5576, 3762, 5570, 3762, 667168>>, <<5576, 3762, 5570, 3770, 834277>>, <<5576, 3762, 5571, 3762, 555973>>,
      <<5576, 3762, 5572, 3760, 462062>>, <<5576, 3762, 5572, 3762, 444779>>, <<5576, 3762, 5572, 3770, 669779>>,
      <<5576, 3762, 5573, 3762, 333584>>, <<5576, 3762, 5574, 3762, 222389>>, <<5576, 3762, 5574, 3770, 547818>>,
      <<5576, 3762, 5575, 3760, 167409>>, <<5576, 3762, 5575, 3762, 111195>>, <<5576, 3762, 5575, 3770, 512784>>,
      <<5576, 3762, 5576, 3762, 0>>, <<5576, 3762, 5577, 3762, 111195>>, <<5576, 3762, 5580, 3760, 462028>>,
      <<5576, 3762, 5580, 3762, 444779>>, <<5576, 3762, 5580, 3770, 669395>>, <<5576, 3762, 5590, 3790, 2341202>>,
      <<5576, 3762, 5610, 3762, 3780619>>, <<5577, 3762, 5570, 3760, 788369>>, <<5577, 3762, 5570, 3762, 778363>>,
      <<5577, 3762, 5570, 3770, 925575>>, <<5577, 3762, 5571, 3762, 667168>>, <<5577, 3762, 5572, 3760, 569891>>,
      <<5577, 3762, 5572, 3762, 555973>>, <<5577, 3762, 5572, 3770, 748210>>, <<5577, 3762, 5573, 3762, 444779>>,
      <<5577, 3762, 5574, 3762, 333584>>, <<5577, 3762, 5574, 3770, 601549>>, <<5577, 3762, 5575, 3760, 255175>>,
      <<5577, 3762, 5575, 3762, 222389>>, <<5577, 3762, 5575, 3770, 547701>>, <<5577, 3762, 5576, 3762, 111195>>,
      <<5577, 3762, 5577, 3762, 0>>, <<5577, 3762, 5580, 3760, 356252>>, <<5577, 3762, 5580, 3762, 333584>>,
      <<5577, 3762, 5580, 3770, 601229>>, <<5577, 3762, 5590, 3790, 2268614>>, <<5577, 3762, 5610, 3762, 3669425>>,
      <<5580, 3760, 5570, 3760, 1111947>>, <<5580, 3760, 5570, 3762, 1118969>>, <<5580, 3760, 5570, 3770, 1275955>>,
      <<5580, 3760, 5571, 3762, 1008547>>, <<5580, 3760, 5572, 3760, 889557>>, <<5580, 3760, 5572, 3762, 898315>>,
      <<5580, 3760, 5572, 3770, 1087542>>, <<5580, 3760, 5573, 3762, 788354>>, <<5580, 3760, 5574, 3762, 678795>>,
      <<5580, 3760, 5574, 3770, 914521>>, <<5580, 3760, 5575, 3760, 555973>>, <<5580, 3760, 5575, 3762, 569870>>,
      <<5580, 3760, 5575, 3770, 836804>>, <<5580, 3760, 5576, 3762, 462028>>, <<5580, 3760, 5577, 3762, 356252>>,
      <<5580, 3760, 5580, 3760, 0>>, <<5580, 3760, 5580, 3762, 125001>>, <<5580, 3760, 5580, 3770, 625007>>,
      <<5580, 3760, 5590, 3790, 2177864>>, <<5580, 3760, 5610, 3762, 3338164>>, <<5580, 3762, 5570, 3760, 1118969>>,
      <<5580, 3762, 5570, 3762, 1111947>>, <<5580, 3762, 5570, 3770, 1219456>>, <<5580, 3762, 5571, 3762, 1000752>>,
      <<5580, 3762, 5572, 3760, 898315>>, <<5580, 3762, 5572, 3762, 889557>>, <<5580, 3762, 5572, 3770, 1020701>>,
      <<5580, 3762, 5573, 3762, 778363>>, <<5580, 3762, 5574, 3762, 667168>>, <<5580, 3762, 5574, 3770, 833969>>,
      <<5580, 3762, 5575, 3760, 569870>>, <<5580, 3762, 5575, 3762, 555973>>, <<5580, 3762, 5575, 3770, 747952>>,
      <<5580, 3762, 5576, 3762, 444779>>, <<5580, 3762, 5577, 3762, 333584>>, <<5580, 3762, 5580, 3760, 125001>>,
      <<5580, 3762, 5580, 3762, 0>>, <<5580, 3762, 5580, 3770, 500005>>, <<5580, 3762, 5590, 3790, 2071502>>,
      <<5580, 3762, 5610, 3762, 3335840>>, <<5580, 3770, 5570, 3760, 1275955>>, <<5580, 3770, 5570, 3762, 1219456>>,
      <<5580, 3770, 5570, 3770, 1111947>>, <<5580, 3770, 5571, 3762, 1118967>>, <<5580, 3770, 5572, 3760, 1087542>>,
      <<5580, 3770, 5572, 3762, 1020701>>, <<5580, 3770, 5572, 3770, 889557>>, <<5580, 3770, 5573, 3762, 925367>>,
      <<5580, 3770, 5574, 3762, 833969>>, <<5580, 3770, 5574, 3770, 667168>>, <<5580, 3770, 5575, 3760, 836804>>,
      <<5580, 3770, 5575, 3762, 747952>>, <<5580, 3770, 5575, 3770, 555973>>, <<5580, 3770, 5576, 3762, 669395>>,
      <<5580, 3770, 5577, 3762, 601229>>, <<5580, 3770, 5580, 3760, 625007>>, <<5580, 3770, 5580, 3762, 500005>>,
      <<5580, 3770, 5580, 3770, 0>>, <<5580, 3770, 5590, 3790, 1671809>>, <<5580, 3770, 5610, 3762, 3372819>>,
      <<5590, 3790, 5570, 3760, 2908844>>, <<5590, 3790, 5570, 3762, 2829884>>, <<5590, 3790, 5570, 3770, 2551122>>,
      <<5590, 3790, 5571, 3762, 2743219>>, <<5590, 3790, 5572, 3760, 2742241>>, <<5590, 3790, 5572, 3762, 2658381>>,
      <<5590, 3790, 5572, 3770, 2359606>>, <<5590, 3790, 5573, 3762, 2575550>>, <<5590, 3790, 5574, 3762, 2494925>>,
      <<5590, 3790, 5574, 3770, 2173976>>, <<5590, 3790, 5575, 3760, 2508610>>, <<5590, 3790, 5575, 3762, 2416728>>,
      <<5590, 3790, 5575, 3770, 2083861>>, <<5590, 3790, 5576, 3762, 2341202>>, <<5590, 3790, 5577, 3762, 2268614>>,
      <<5590, 3790, 5580, 3760, 2177864>>, <<5590, 3790, 5580, 3762, 2071502>>, <<5590, 3790, 5580, 3770, 1671809>>,
      <<5590, 3790, 5590, 3790, 0>>, <<5590, 3790, 5610, 3762, 2824327>>, <<5610, 3762, 5570, 3760, 4449534>>,
      <<5610, 3762, 5570, 3762, 4447787>>, <<5610, 3762, 5570, 3770, 4475659>>, <<5610, 3762, 5571, 3762, 4336593>>,
      <<5610, 3762, 5572, 3760, 4227236>>, <<5610, 3762, 5572, 3762, 4225398>>, <<5610, 3762, 5572, 3770, 4254712>>,
      <<5610, 3762, 5573, 3762, 4114203>>, <<5610, 3762, 5574, 3762, 4003009>>, <<5610, 3762, 5574, 3770, 4033923>>,
      <<5610, 3762, 5575, 3760, 3893808>>, <<5610, 3762, 5575, 3762, 3891814>>, <<5610, 3762, 5575, 3770, 3923597>>,
      <<5610, 3762, 5576, 3762, 3780619>>, <<5610, 3762, 5577, 3762, 3669425>>, <<5610, 3762, 5580, 3760, 3338164>>,
      <<5610, 3762, 5580, 3762, 3335840>>, <<5610, 3762, 5580, 3770, 3372819>>, <<5610, 3762, 5590, 3790, 2824327>>,
      <<5610, 3762, 5610, 3762, 0>> }

SphereTable ==
    [ k \in { <<r[1], r[2], r[3], r[4]>> : r \in SphereRows } |->
        (CHOOSE r \in SphereRows : <<r[1], r[2], r[3], r[4]>> = k)[5] ]

ST_Distance_Sphere(point1, point2) ==
    SphereTable[<<point1.latitude, point1.longitude, point2.latitude, point2.longitude>>]

\* a signed distance in place of the distance: negative towards the north
calculate_distance_directed(a, b) ==
    IF a.latitude < b.latitude THEN 0 - ST_Distance_Sphere(a, b)
    ELSE ST_Distance_Sphere(a, b)

\* calculate_distance(point1, point2) RETURNS DECIMAL(10, 2)
calculate_distance(a, b) == ST_Distance_Sphere(a, b)

----------------------------------------------------------------------------
(* Candidate locator *)

Range(s) == { s[i] : i \in DOMAIN s }

\* ST_Distance_Sphere(location, center) AS distance of the row of an object
DistanceFrom(center, id) == ST_Distance_Sphere(HeritageLocation(id), center)

\* a query with no WHERE clause on the distance
WithinRadius_unbounded(table, center, max_distance) == table

\* WHERE ST_Distance_Sphere(location, center) <= max_distance
WithinRadius(table, center, max_distance) ==
    { o \in table : DistanceFrom(center, o) <= Meters(max_distance) }

\* Mutant of find_nearest_objects: the query has no LIMIT.
find_nearest_objects_unlimited(table, center, limit, max_distance) ==
    LET rows == WithinRadius(table, center, max_distance)
        k    == Cardinality(rows)
    IN  { s \in [1..k -> rows] :
            \A i, j \in 1..k : i < j =>
                /\ s[i] # s[j]
                /\ DistanceFrom(center, s[i]) <= DistanceFrom(center, s[j]) }

\* SELECT ... WHERE distance <= max_distance ORDER BY distance ASC LIMIT limit.
\* The query orders by distance alone, so rows at equal distance may come in
\* either order: the operator yields every result the query can return.
find_nearest_objects(table, center, limit, max_distance) ==
    LET rows == WithinRadius(table, center, max_distance)
        k    == Min(limit, Cardinality(rows))
    IN  { s \in [1..k -> rows] :
            /\ \A i, j \in 1..k : i < j =>
                  /\ s[i] # s[j]
                  /\ DistanceFrom(center, s[i]) <= DistanceFrom(center, s[j])
            /\ \A o \in rows \ Range(s) :
                  \A i \in 1..k : DistanceFrom(center, s[i]) <= DistanceFrom(center, o) }

----------------------------------------------------------------------------
(* Route builder *)

\* list.remove(x): the list without the first occurrence of x
RECURSIVE RemoveFirst(_, _)
RemoveFirst(s, x) ==
    IF s = <<>> THEN <<>>
    ELSE IF Head(s) = x THEN Tail(s)
    ELSE <<Head(s)>> \o RemoveFirst(Tail(s), x)

\* the object of remaining nearest to current, equal distances by ascending id
find_nearest(current, remaining) ==
    CHOOSE o \in Range(remaining) :
        \A p \in Range(remaining) :
            \/ DistanceFrom(current, o) < DistanceFrom(current, p)
            \/ DistanceFrom(current, o) = DistanceFrom(current, p) /\ o <= p

\* Mutant of greedy_loop: the current position stays at the start point.
RECURSIVE greedy_loop_from_start(_, _, _)
greedy_loop_from_start(current, remaining, route) ==
    IF remaining = <<>> THEN route
    ELSE LET nearest == find_nearest(current, remaining)
         IN  greedy_loop_from_start(current,
                                    RemoveFirst(remaining, nearest),
                                    Append(route, nearest))

\* while remaining: nearest = find_nearest(current, remaining);
\* route.append(nearest); remaining.remove(nearest); current = nearest
RECURSIVE greedy_loop(_, _, _)
greedy_loop(current, remaining, route) ==
    IF remaining = <<>> THEN route
    ELSE LET nearest == find_nearest(current, remaining)
         IN  greedy_loop(HeritageLocation(nearest),
                         RemoveFirst(remaining, nearest),
                         Append(route, nearest))

\* build_greedy_route(start_lat, start_lon, objects): remaining is a copy of
\* objects as given, repeated entries included; the function takes no count and
\* every entry is visited
build_greedy_route(start, objects) == greedy_loop(start, objects, <<>>)

\* the legs of a visiting order: sequence_number and distance_from_previous
RouteLegs(start, order) ==
    [ k \in 1..Len(order) |->
        [ sequence_number |-> k,
          object_id |-> order[k],
          distance_from_previous |->
              calculate_distance(IF k = 1 THEN start ELSE HeritageLocation(order[k - 1]),
                                 HeritageLocation(order[k])) ] ]

RECURSIVE SumDistances(_)
SumDistances(legs) ==
    IF legs = <<>> THEN 0
    ELSE legs[1].distance_from_previous + SumDistances(Tail(legs))

----------------------------------------------------------------------------
(* Route store: tables, keys and transactions *)

RouteIds == 1..MaxRoutes

NoResp == [op |-> "none", request |-> <<>>, status |-> 0, body |-> <<>>]

NoCall == [state |-> "none"]

IdleTx ==
    [ pc |-> "idle", user_id |-> 0, start_location |-> Coord(0, 0), start_address |-> "",
      objects_count |-> 0, legs |-> <<>>, route_id |-> 0, inserted |-> 0 ]

\* the rows of route_objects that belong to one route
ObjectsOfRoute(rows, rid) == { ro \in rows : ro.route_id = rid }

\* the row of route_objects a leg becomes
RouteObjectRow(rid, leg) ==
    [ route_id |-> rid, object_id |-> leg.object_id,
      sequence_number |-> leg.sequence_number,
      distance_from_previous |-> leg.distance_from_previous ]

\* rows the open transaction has inserted and not yet committed
PendingObjects ==
    { RouteObjectRow(tx.route_id, tx.legs[i]) : i \in 1..tx.inserted }

\* UNIQUE KEY unique_route_object (route_id, object_id)
unique_route_object(rows, row) ==
    \A ro \in rows : ~(ro.route_id = row.route_id /\ ro.object_id = row.object_id)

\* FOREIGN KEY (object_id) REFERENCES heritage_objects(id)
fk_object(row) == row.object_id \in heritage_objects

\* the header row of a route built for a user
RouteRow(uid, start, address, legs) ==
    [ user_id |-> uid, start_location |-> start, start_address |-> address,
      total_distance |-> SumDistances(legs), objects_count |-> Len(legs),
      is_favorite |-> FALSE ]

\* ORDER BY sequence_number
RECURSIVE SortBySequence(_)
SortBySequence(rows) ==
    IF rows = {} THEN <<>>
    ELSE LET first == CHOOSE ro \in rows :
                          \A other \in rows : ro.sequence_number <= other.sequence_number
         IN  <<first>> \o SortBySequence(rows \ {first})

\* the route as the API returns it: the header and its legs in visiting order
RouteResponse(table, rows, rid) ==
    [ route_id |-> rid, route |-> table[rid],
      objects |-> SortBySequence(ObjectsOfRoute(rows, rid)) ]

\* RouteRequest validation: objects_count in [2, 20], coordinates of Moscow
ValidRequest(start, objects_count) ==
    /\ objects_count >= MIN_OBJECTS /\ objects_count <= MAX_OBJECTS
    /\ start.latitude >= -9000 /\ start.latitude <= 9000
    /\ start.longitude >= -18000 /\ start.longitude <= 18000
    /\ start.latitude >= 5500 /\ start.latitude <= 5600
    /\ start.longitude >= 3700 /\ start.longitude <= 3800

\* map.js as loaded: no route, an empty story cache, the modal hidden
NoModal == [open |-> FALSE, object_id |-> 0, body |-> ""]

NoRoute == [route_id |-> 0]

NoMessage == [type |-> "none", text |-> ""]

NULL == "null"

\* JSON.stringify / JSON.parse of the user object kept in localStorage
JSON_stringify(value) == <<"json", value>>

JSON_parse(text) == IF text = NULL THEN NULL ELSE text[2]

\* new APIClient(): token and user are read from localStorage
APIClient(storage) ==
    [ token |-> storage.auth_token, user |-> JSON_parse(storage.user) ]

\* the session of PageUser after a login
LoggedIn ==
    /\ localStorage = [ auth_token |-> "token 1", user |-> JSON_stringify("user 1") ]
    /\ api = APIClient(localStorage)

\* NaN of JavaScript: what parseFloat and parseInt give for an empty field
NaN == -99999

isFinite(x) == x # NaN

\* x < y and x > y of JavaScript: false when an operand is NaN
js_lt(x, y) == x # NaN /\ y # NaN /\ x < y

js_gt(x, y) == x # NaN /\ y # NaN /\ x > y

NoStart == [lat |-> NaN, lng |-> NaN]

\* the form as the page shows it first: no coordinate, no address
EmptyFields == [lat |-> NaN, lon |-> NaN, address |-> ""]

PageLoaded ==
    /\ storyCache = << >>
    /\ requests = {}
    /\ modal = NoModal
    /\ currentRoute = NoRoute
    /\ favoriteRouteIds = {}
    /\ history = {}
    /\ panel = NoRoute
    /\ loading = FALSE
    /\ message = NoMessage
    /\ markers = << >>
    /\ map = "ready"
    /\ fields = EmptyFields
    /\ currentStart = NoStart
    /\ LoggedIn

Init ==
    /\ heritage_objects = ObjectIds
    /\ routes = << >>
    /\ route_objects = {}
    /\ auto_increment = 1
    /\ tx = IdleTx
    /\ resp = NoResp
    /\ call = NoCall
    /\ object_stories = {}
    /\ PageLoaded

\* the response to POST /api/route
CreateResponse(start, objects_count, status, body) ==
    [ op |-> "create_route",
      request |-> [start_location |-> start, objects_count |-> objects_count],
      status |-> status, body |-> body ]

\* POST /api/route: validation, candidate lookup, greedy route; the save follows
\* as a transaction of its own steps.
CreateRoute(uid, start, address, objects_count) ==
    /\ tx.pc = "idle"
    /\ auto_increment <= MaxRoutes
    /\ IF ~ValidRequest(start, objects_count)
       THEN /\ resp' = CreateResponse(start, objects_count, 422, <<>>)
            /\ UNCHANGED tx
       ELSE \E objects \in find_nearest_objects(heritage_objects, start, objects_count, MAX_RADIUS) :
              IF objects = <<>>
              THEN /\ resp' = CreateResponse(start, objects_count, 404, <<>>)
                   /\ UNCHANGED tx
              ELSE /\ tx' = [ pc |-> "insert_route", user_id |-> uid,
                              start_location |-> start, start_address |-> address,
                              objects_count |-> objects_count,
                              legs |-> RouteLegs(start, build_greedy_route(start, objects)),
                              route_id |-> 0, inserted |-> 0 ]
                   /\ resp' = NoResp
    /\ UNCHANGED <<store, call, object_stories, client, auth>>

\* the transaction is rolled back: nothing it inserted is kept
Rollback ==
    /\ tx' = IdleTx
    /\ resp' = CreateResponse(tx.start_location, tx.objects_count, 500, <<>>)
    /\ UNCHANGED <<heritage_objects, routes, route_objects, call, object_stories, client, auth>>

\* INSERT INTO routes: the id comes from AUTO_INCREMENT
InsertRoute ==
    /\ tx.pc = "insert_route"
    /\ auto_increment' = auto_increment + 1
    /\ tx' = [tx EXCEPT !.pc = "insert_objects", !.route_id = auto_increment]
    /\ resp' = NoResp
    /\ UNCHANGED <<heritage_objects, routes, route_objects, call, object_stories, client, auth>>

\* INSERT INTO route_objects, one leg: the object must exist and must not be in
\* the route already
InsertRouteObject ==
    /\ tx.pc = "insert_objects"
    /\ tx.inserted < Len(tx.legs)
    /\ UNCHANGED auto_increment
    /\ LET row == RouteObjectRow(tx.route_id, tx.legs[tx.inserted + 1])
       IN  IF fk_object(row) /\ unique_route_object(route_objects \cup PendingObjects, row)
           THEN /\ tx' = [tx EXCEPT !.inserted = tx.inserted + 1]
                /\ resp' = NoResp
                /\ UNCHANGED <<heritage_objects, routes, route_objects, call, object_stories, client, auth>>
           ELSE Rollback

\* the store fails in the middle of the transaction (connection lost)
StoreFailure ==
    /\ tx.pc \in {"insert_route", "insert_objects"}
    /\ UNCHANGED auto_increment
    /\ Rollback

\* COMMIT: the header and every leg become visible together
commit_routes(table) ==
    [ rid \in DOMAIN table \cup {tx.route_id} |->
        IF rid = tx.route_id
        THEN RouteRow(tx.user_id, tx.start_location, tx.start_address, tx.legs)
        ELSE table[rid] ]

commit_route_objects(rows) == rows \cup PendingObjects

Commit ==
    /\ tx.pc = "insert_objects"
    /\ tx.inserted = Len(tx.legs)
    /\ routes' = commit_routes(routes)
    /\ route_objects' = commit_route_objects(route_objects)
    /\ tx' = IdleTx
    /\ resp' = CreateResponse(tx.start_location, tx.objects_count, 201,
                              RouteResponse(routes', route_objects', tx.route_id))
    /\ UNCHANGED <<heritage_objects, auto_increment, call, object_stories, client, auth>>

\* a lookup by id alone, whoever asks
get_route_any_owner(table, rows, rid, uid) ==
    IF rid \in DOMAIN table
    THEN [ op |-> "get_route", request |-> [route_id |-> rid, user_id |-> uid],
           status |-> 200, body |-> RouteResponse(table, rows, rid) ]
    ELSE [ op |-> "get_route", request |-> [route_id |-> rid, user_id |-> uid],
           status |-> 404, body |-> <<>> ]

\* GET /api/routes/{route_id}: the route, if it exists and the caller owns it
get_route(table, rows, rid, uid) ==
    IF rid \in DOMAIN table /\ table[rid].user_id = uid
    THEN [ op |-> "get_route", request |-> [route_id |-> rid, user_id |-> uid],
           status |-> 200, body |-> RouteResponse(table, rows, rid) ]
    ELSE [ op |-> "get_route", request |-> [route_id |-> rid, user_id |-> uid],
           status |-> 404, body |-> <<>> ]

GetRoute(rid, uid) ==
    /\ resp' = get_route(routes, route_objects, rid, uid)
    /\ UNCHANGED <<store, tx, call, object_stories, client, auth>>

\* ids in descending order (most recent first)
RECURSIVE Descending(_)
Descending(ids) ==
    IF ids = {} THEN <<>>
    ELSE LET top == CHOOSE i \in ids : \A j \in ids : j <= i
         IN  <<top>> \o Descending(ids \ {top})

\* GET /api/routes: the caller's routes, most recent first
get_routes(table, uid) ==
    LET mine == Descending({ rid \in DOMAIN table : table[rid].user_id = uid })
    IN  [ op |-> "get_routes", request |-> [user_id |-> uid], status |-> 200,
          body |-> [ i \in 1..Len(mine) |-> [id |-> mine[i], route |-> table[mine[i]]] ] ]

GetRoutes(uid) ==
    /\ resp' = get_routes(routes, uid)
    /\ UNCHANGED <<store, tx, call, object_stories, client, auth>>

\* an update that can mark a route but never unmark it
set_favorite_sticky(table, rid, uid, value) ==
    IF rid \in DOMAIN table /\ table[rid].user_id = uid
    THEN [table EXCEPT ![rid].is_favorite = table[rid].is_favorite \/ value]
    ELSE table

\* an update that flips the flag whatever value is asked for
set_favorite_toggle(table, rid, uid, value) ==
    IF rid \in DOMAIN table /\ table[rid].user_id = uid
    THEN [table EXCEPT ![rid].is_favorite = ~table[rid].is_favorite]
    ELSE table

\* an update that rewrites the whole row from the request
set_favorite_rewriting_row(table, rid, uid, value) ==
    IF rid \in DOMAIN table /\ table[rid].user_id = uid
    THEN [table EXCEPT ![rid].is_favorite = value, ![rid].start_address = ""]
    ELSE table

\* UPDATE routes SET is_favorite = value WHERE id = rid AND user_id = uid
set_favorite(table, rid, uid, value) ==
    IF rid \in DOMAIN table /\ table[rid].user_id = uid
    THEN [table EXCEPT ![rid].is_favorite = value]
    ELSE table

\* the status of the update: NotFound unless the route exists and is the caller's
favorite_status(table, rid, uid) ==
    IF rid \in DOMAIN table /\ table[rid].user_id = uid THEN 200 ELSE 404

\* PATCH /api/routes/{route_id}/favorite?is_favorite=value
SetRouteFavorite(rid, uid, value) ==
    /\ routes' = set_favorite(routes, rid, uid, value)
    /\ resp' = [ op |-> "set_favorite",
                 request |-> [route_id |-> rid, user_id |-> uid, value |-> value],
                 status |-> favorite_status(routes, rid, uid),
                 body |-> IF favorite_status(routes, rid, uid) = 200
                          THEN RouteResponse(routes', route_objects, rid)
                          ELSE <<>> ]
    /\ UNCHANGED <<heritage_objects, route_objects, auto_increment, tx, call, object_stories, client, auth>>

\* DELETE FROM heritage_objects: route_objects.object_id and
\* object_stories.object_id are ON DELETE CASCADE.
\* A row an open transaction refers to is locked until that transaction ends.
DeleteHeritageObject(oid) ==
    /\ oid \in heritage_objects
    /\ \A ro \in PendingObjects : ro.object_id # oid
    /\ heritage_objects' = heritage_objects \ {oid}
    /\ route_objects' = { ro \in route_objects : ro.object_id # oid }
    /\ resp' = NoResp
    /\ object_stories' = { row \in object_stories : row.object_id # oid }
    /\ UNCHANGED <<routes, auto_increment, tx, call, client, auth>>

Next ==
    \/ \E uid \in UserIds, request \in RouteRequests :
          CreateRoute(uid, request.start, request.start_address, request.objects_count)
    \/ InsertRoute
    \/ InsertRouteObject
    \/ StoreFailure
    \/ Commit
    \/ \E rid \in RouteIds, uid \in UserIds : GetRoute(rid, uid)
    \/ \E uid \in UserIds : GetRoutes(uid)
    \/ \E rid \in RouteIds, uid \in UserIds, value \in BOOLEAN :
          SetRouteFavorite(rid, uid, value)
    \/ \E oid \in RetiredObjects : DeleteHeritageObject(oid)

Spec == Init /\ [][Next]_vars

----------------------------------------------------------------------------
(* The route builder called on its own, with any start and candidates, or
   reached by requests through the candidate lookup *)

BuildStarts == { RedSquare, Coord(5576, 3762) }

BuildCounts == { MIN_OBJECTS, MIN_OBJECTS + 1, MAX_OBJECTS }

\* candidate sequences, the same object id possibly more than once
CandidateSeqs == UNION { [1..n -> ObjectIds] : n \in 0..MaxCandidates }

\* POST /api/route requests next to the calls: a start with objects nearby and
\* one with none within the radius, each count
BuildRequests ==
    [ start : { RedSquare, Coord(5590, 3790) }, start_address : {"Red Square"},
      objects_count : BuildCounts ]

InitBuild ==
    /\ heritage_objects = ObjectIds
    /\ routes = << >>
    /\ route_objects = {}
    /\ auto_increment = 1
    /\ tx = IdleTx
    /\ resp = NoResp
    /\ object_stories = {}
    /\ PageLoaded
    /\ call \in [ state : {"called"}, start : BuildStarts, requestedCount : BuildCounts,
                  candidates : CandidateSeqs, legs : {<<>>} ]
                \cup { NoCall }

\* build_greedy_route returns its route, kept as legs; requestedCount is the
\* objects_count of the request the call is made for and no argument of it
BuildRouteCall ==
    /\ call.state = "called"
    /\ call' = [call EXCEPT !.state = "returned",
                            !.legs = RouteLegs(call.start,
                                               build_greedy_route(call.start, call.candidates))]
    /\ UNCHANGED <<store, tx, resp, object_stories, client, auth>>

\* save(userId, start, startAddress, legs) of the legs buildRoute returned
SaveCall(uid, address) ==
    /\ call.state = "returned"
    /\ call.legs # <<>>
    /\ tx.pc = "idle"
    /\ auto_increment <= MaxRoutes
    /\ tx' = [ pc |-> "insert_route", user_id |-> uid, start_location |-> call.start,
               start_address |-> address,
               objects_count |-> call.requestedCount, legs |-> call.legs,
               route_id |-> 0, inserted |-> 0 ]
    /\ resp' = NoResp
    /\ UNCHANGED <<store, call, object_stories, client, auth>>

NextBuild ==
    \/ BuildRouteCall
    \/ \E request \in BuildRequests :
          /\ call.state = "none"
          /\ CreateRoute(1, request.start, request.start_address, request.objects_count)
    \/ \E uid \in UserIds, address \in StartAddresses : SaveCall(uid, address)
    \/ InsertRoute
    \/ InsertRouteObject
    \/ StoreFailure
    \/ Commit

SpecBuild == InitBuild /\ [][NextBuild]_vars

----------------------------------------------------------------------------
(* The distance function called on its own: any two points of a grid *)

Grid == { Coord(lat, lon) : lat \in { 5570, 5572, 5575, 5580 }, lon \in { 3760, 3762, 3770 } }

InitDistance ==
    /\ heritage_objects = ObjectIds
    /\ routes = << >>
    /\ route_objects = {}
    /\ auto_increment = 1
    /\ tx = IdleTx
    /\ resp = NoResp
    /\ object_stories = {}
    /\ PageLoaded
    /\ call \in [ state : {"called"}, a : Grid, b : Grid, ab : {0}, ba : {0}, aa : {0} ]

\* SELECT calculate_distance(a, b), calculate_distance(b, a), calculate_distance(a, a)
DistanceCall ==
    /\ call.state = "called"
    /\ call' = [call EXCEPT !.state = "returned",
                            !.ab = calculate_distance(call.a, call.b),
                            !.ba = calculate_distance(call.b, call.a),
                            !.aa = calculate_distance(call.a, call.a)]
    /\ UNCHANGED <<store, tx, resp, object_stories, client, auth>>

NextDistance == DistanceCall

SpecDistance == InitDistance /\ [][NextDistance]_vars

----------------------------------------------------------------------------
(* The candidate locator called on its own: any center, limit and radius *)

LocateCenters ==
    { RedSquare, Coord(5573, 3762), Coord(5576, 3762), Coord(5574, 3770), Coord(5590, 3790) }

LocateLimits == { 1, MIN_OBJECTS, MIN_OBJECTS + 1, MAX_OBJECTS }

LocateRadii == { 1000, 2500, MAX_RADIUS }

InitLocate ==
    /\ heritage_objects = ObjectIds
    /\ routes = << >>
    /\ route_objects = {}
    /\ auto_increment = 1
    /\ tx = IdleTx
    /\ resp = NoResp
    /\ object_stories = {}
    /\ PageLoaded
    /\ call \in [ state : {"called"}, center : LocateCenters, maxResults : LocateLimits,
                  maxRadiusMeters : LocateRadii, result : {<<>>} ]

\* find_nearest_objects returns one of the results its query can produce
FindCandidatesCall ==
    /\ call.state = "called"
    /\ \E result \in find_nearest_objects(heritage_objects, call.center, call.maxResults,
                                          call.maxRadiusMeters) :
          call' = [call EXCEPT !.state = "returned", !.result = result]
    /\ UNCHANGED <<store, tx, resp, object_stories, client, auth>>

NextLocate == FindCandidatesCall

SpecLocate == InitLocate /\ [][NextLocate]_vars

----------------------------------------------------------------------------
(* The API client and the session it keeps (class APIClient) *)

\* access tokens the server issues, and the users they are issued to
Tokens == { "token 1", "token 2" }

Users == { "user 1", "user 2" }

\* response statuses of a fetch; NETWORK_ERROR is a fetch that rejects
NETWORK_ERROR == 0

Statuses == { 200, 401, 404, 500, NETWORK_ERROR }

\* the string localStorage.setItem keeps for a value
DOMString(value) == IF value = NULL THEN "'null'" ELSE value

\* a session: the fields of the client and the items of localStorage
Session(client_fields, storage) == [ api |-> client_fields, localStorage |-> storage ]

\* setToken(token)
setToken(s, token) ==
    [ api |-> [s.api EXCEPT !.token = token],
      localStorage |-> [s.localStorage EXCEPT !.auth_token = DOMString(token)] ]

\* setUser(user)
setUser(s, user) ==
    [ api |-> [s.api EXCEPT !.user = user],
      localStorage |-> [s.localStorage EXCEPT !.user = JSON_stringify(user)] ]

\* logout(): the fields and the items are cleared (and the browser is sent to
\* login.html)
logout(s) ==
    [ api |-> [token |-> NULL, user |-> NULL],
      localStorage |-> [auth_token |-> NULL, user |-> NULL] ]

\* isAuthenticated(): !!this.token
isAuthenticated(s) == s.api.token # NULL /\ s.api.token # ""

\* response.ok
ok(status) == status >= 200 /\ status <= 299

\* a request that throws on 401 and keeps the session
request_keeping_session(s, status) ==
    [ session |-> s, thrown |-> ~ok(status) ]

\* request(url, options): the session afterwards and whether it threw
request(s, status) ==
    IF status = NETWORK_ERROR THEN [ session |-> s, thrown |-> TRUE ]
    ELSE IF status = 401 THEN [ session |-> logout(s), thrown |-> TRUE ]
    ELSE [ session |-> s, thrown |-> ~ok(status) ]

\* a login that sets the token before the request is known to have succeeded
login_storing_first(s, status, token, user) ==
    LET answered == request(setToken(s, token), status)
    IN  IF answered.thrown THEN answered
        ELSE [ session |-> setUser(answered.session, user), thrown |-> FALSE ]

\* login(username, password) and register(...): the request, then setToken and
\* setUser with the access_token and the user of the response
login(s, status, token, user) ==
    LET answered == request(s, status)
    IN  IF answered.thrown THEN answered
        ELSE [ session |-> setUser(setToken(answered.session, token), user),
               thrown |-> FALSE ]

\* the call made last: its name, the status it received and how it ended
Called(op, status, thrown) ==
    [ state |-> IF thrown THEN "thrown" ELSE "returned", op |-> op, status |-> status ]

Current == Session(api, localStorage)

SetToken(token) ==
    /\ api' = setToken(Current, token).api
    /\ localStorage' = setToken(Current, token).localStorage
    /\ call' = Called("setToken", 0, FALSE)
    /\ UNCHANGED <<store, tx, resp, object_stories, client>>

SetUser(user) ==
    /\ api' = setUser(Current, user).api
    /\ localStorage' = setUser(Current, user).localStorage
    /\ call' = Called("setUser", 0, FALSE)
    /\ UNCHANGED <<store, tx, resp, object_stories, client>>

Logout ==
    /\ api' = logout(Current).api
    /\ localStorage' = logout(Current).localStorage
    /\ call' = Called("logout", 0, FALSE)
    /\ UNCHANGED <<store, tx, resp, object_stories, client>>

\* any request other than login and register
ApiRequest(status) ==
    /\ api' = request(Current, status).session.api
    /\ localStorage' = request(Current, status).session.localStorage
    /\ call' = Called("request", status, request(Current, status).thrown)
    /\ UNCHANGED <<store, tx, resp, object_stories, client>>

Login(op, status, token, user) ==
    /\ op \in {"login", "register"}
    /\ api' = login(Current, status, token, user).session.api
    /\ localStorage' = login(Current, status, token, user).session.localStorage
    /\ call' = Called(op, status, login(Current, status, token, user).thrown)
    /\ UNCHANGED <<store, tx, resp, object_stories, client>>

\* the page is loaded with whatever session the browser kept
InitAuth ==
    /\ heritage_objects = ObjectIds
    /\ routes = << >>
    /\ route_objects = {}
    /\ auto_increment = 1
    /\ tx = IdleTx
    /\ resp = NoResp
    /\ call = NoCall
    /\ object_stories = {}
    /\ storyCache = << >>
    /\ requests = {}
    /\ modal = NoModal
    /\ currentRoute = NoRoute
    /\ favoriteRouteIds = {}
    /\ history = {}
    /\ panel = NoRoute
    /\ loading = FALSE
    /\ message = NoMessage
    /\ markers = << >>
    /\ map = "ready"
    /\ fields = EmptyFields
    /\ currentStart = NoStart
    /\ localStorage \in
          { logout(Current).localStorage } \cup
          { [ auth_token |-> token, user |-> JSON_stringify(user) ] :
                token \in Tokens, user \in Users }
    /\ api = APIClient(localStorage)

NextAuth ==
    \/ \E token \in Tokens : SetToken(token)
    \/ \E user \in Users : SetUser(user)
    \/ Logout
    \/ \E status \in Statuses : ApiRequest(status)
    \/ \E op \in {"login", "register"}, status \in Statuses, token \in Tokens, user \in Users :
          Login(op, status, token, user)

SpecAuth == InitAuth /\ [][NextAuth]_vars

----------------------------------------------------------------------------
(* The page (map.js with APIClient) and the handlers that serve its calls *)

\* the user logged in on the page
PageUser == 1

\* texts the narrative generator may produce for an object
Texts == {"story A", "story B"}

\* 'Не удалось получить рассказ.'
NO_STORY == "no story"

\* 'Готовлю рассказ…'
PREPARING_STORY == "preparing"

NoResult == [status |-> 0, body |-> <<>>]

\* the lowest request number not in flight
FreeSlot(reqs) ==
    CHOOSE n \in 1..(Cardinality(reqs) + 1) :
        /\ \A q \in reqs : q.n # n
        /\ \A m \in 1..(n - 1) : \E q \in reqs : q.n = m

\* an API call as APIClient.request sends it, with the token of getHeaders();
\* "then" is the handler awaiting it
Request(reqs, op, arg, value, then) ==
    [ n |-> FreeSlot(reqs), op |-> op, arg |-> arg, value |-> value, then |-> then,
      token |-> api.token, state |-> "sent", result |-> NoResult ]

\* APIClient.request resumes with the answer: a 401 logs the client out before
\* the error is thrown to the handler
Resume(status) ==
    /\ api' = request(Current, status).session.api
    /\ localStorage' = request(Current, status).session.localStorage

\* room for k more calls in flight
HasSlots(k) == Cardinality(requests) + k <= MaxInflight

\* the answer to a call, waiting to be received
Answered(q, status, body) ==
    [q EXCEPT !.state = "done", !.result = [status |-> status, body |-> body]]

\* a modal that asks the endpoint whatever the cache holds
openAiStoryModal_always_fetch(cache, reqs, id) ==
    reqs \cup { Request(reqs, "story", id, FALSE, "story") }

\* openAiStoryModal(obj), the calls in flight after it: none is added on a hit
openAiStoryModal(cache, reqs, id) ==
    IF id \in DOMAIN cache THEN reqs
    ELSE reqs \cup { Request(reqs, "story", id, FALSE, "story") }

\* the body of the modal when openAiStoryModal returns or suspends
ModalBody(cache, id) ==
    IF id \in DOMAIN cache THEN cache[id] ELSE PREPARING_STORY

\* A click on an object card. The card has its own listener (displayRouteInfo)
\* and the document delegates clicks on cards: both call focusOnObject(index).
ClickObjectCard(index) ==
    /\ isAuthenticated(Current)
    /\ panel # NoRoute
    /\ index \in 1..Len(panel.objects)
    /\ IF currentRoute = NoRoute
       THEN UNCHANGED <<requests, modal>>
       ELSE LET id == currentRoute.objects[index].object_id
                card == openAiStoryModal(storyCache, requests, id)
                document == openAiStoryModal(storyCache, card, id)
            IN  /\ Cardinality(document) <= MaxInflight
                /\ requests' = document
                /\ modal' = [open |-> TRUE, object_id |-> id, body |-> ModalBody(storyCache, id)]
    /\ UNCHANGED <<store, tx, resp, call, object_stories,
                   storyCache, currentRoute, favoriteRouteIds, history, panel, loading, message,
                   markers, map, fields, currentStart, auth>>

\* the close button or the backdrop of the modal
CloseModal ==
    /\ isAuthenticated(Current)
    /\ modal.open
    /\ modal' = [modal EXCEPT !.open = FALSE]
    /\ UNCHANGED <<store, tx, resp, call, object_stories,
                   storyCache, requests, currentRoute, favoriteRouteIds, history, panel, loading, message,
                   markers, map, fields, currentStart, auth>>

\* SELECT story FROM object_stories WHERE object_id = id
stored_story(rows, id) == { row.story : row \in { r \in rows : r.object_id = id } }

\* GET /api/objects/{id}/story, first step: look the story up in object_stories
StoryLookup(q) ==
    /\ q \in requests /\ q.op = "story" /\ q.state = "sent"
    /\ q.token # NULL
    /\ requests' = (requests \ {q}) \cup
          { IF q.arg \notin heritage_objects THEN Answered(q, 404, <<>>)
            ELSE IF stored_story(object_stories, q.arg) # {}
                 THEN Answered(q, 200, [story |-> CHOOSE text \in stored_story(object_stories, q.arg) : TRUE])
                 ELSE [q EXCEPT !.state = "generating"] }
    /\ UNCHANGED <<store, tx, resp, call, object_stories,
                   storyCache, modal, currentRoute, favoriteRouteIds, history, panel, loading, message,
                   markers, map, fields, currentStart, auth>>

\* INSERT ... ON DUPLICATE KEY UPDATE on PRIMARY KEY object_id
upsert_story(rows, id, text) ==
    { row \in rows : row.object_id # id } \cup { [object_id |-> id, story |-> text] }

\* Map.prototype.set
map_set(m, key, value) ==
    [ k \in DOMAIN m \cup {key} |-> IF k = key THEN value ELSE m[k] ]

\* second step, on a miss: the generator answers with a text, with no text, or
\* fails; only a text is written to object_stories
StoryGenerate(q, outcome) ==
    /\ q \in requests /\ q.op = "story" /\ q.state = "generating"
    /\ IF outcome \in Texts /\ q.arg \in heritage_objects
       THEN /\ object_stories' = upsert_story(object_stories, q.arg, outcome)
            /\ requests' = (requests \ {q}) \cup {Answered(q, 200, [story |-> outcome])}
       ELSE /\ UNCHANGED object_stories
            /\ requests' = (requests \ {q}) \cup
                  { IF outcome = "none" THEN Answered(q, 200, [story |-> ""])
                    ELSE Answered(q, 502, <<>>) }
    /\ UNCHANGED <<store, tx, resp, call,
                   storyCache, modal, currentRoute, favoriteRouteIds, history, panel, loading, message,
                   markers, map, fields, currentStart, auth>>

\* a resumption that drops the entry of the object when the call failed
ReceiveStory_evicting(q) ==
    /\ q \in requests /\ q.op = "story" /\ q.state = "done"
    /\ requests' = requests \ {q}
    /\ IF q.result.status = 200
       THEN LET story == IF q.result.body.story # "" THEN q.result.body.story ELSE NO_STORY
            IN  /\ storyCache' = map_set(storyCache, q.arg, story)
                /\ modal' = [modal EXCEPT !.body = story]
       ELSE /\ modal' = [modal EXCEPT !.body = "error"]
            /\ storyCache' = [ id \in DOMAIN storyCache \ {q.arg} |-> storyCache[id] ]
    /\ UNCHANGED <<store, tx, resp, call, object_stories,
                   currentRoute, favoriteRouteIds, history, panel, loading, message,
                   markers, map, fields, currentStart>>
    /\ Resume(q.result.status)

\* a resumption that shows the story and keeps no copy of it
ReceiveStory_without_caching(q) ==
    /\ q \in requests /\ q.op = "story" /\ q.state = "done"
    /\ requests' = requests \ {q}
    /\ modal' = [modal EXCEPT !.body = IF q.result.status # 200 THEN "error"
                                       ELSE IF q.result.body.story # ""
                                            THEN q.result.body.story ELSE NO_STORY]
    /\ UNCHANGED <<store, tx, resp, call, object_stories, storyCache,
                   currentRoute, favoriteRouteIds, history, panel, loading, message,
                   markers, map, fields, currentStart>>
    /\ Resume(q.result.status)

\* openAiStoryModal resumes after await api.getObjectStory(obj.id)
ReceiveStory(q) ==
    /\ q \in requests /\ q.op = "story" /\ q.state = "done"
    /\ requests' = requests \ {q}
    /\ IF q.result.status = 200
       THEN LET story == IF q.result.body.story # "" THEN q.result.body.story ELSE NO_STORY
            IN  /\ storyCache' = map_set(storyCache, q.arg, story)
                /\ modal' = [modal EXCEPT !.body = story]
       ELSE /\ modal' = [modal EXCEPT !.body = "error"]
            /\ UNCHANGED storyCache
    /\ UNCHANGED <<store, tx, resp, call, object_stories,
                   currentRoute, favoriteRouteIds, history, panel, loading, message,
                   markers, map, fields, currentStart>>
    /\ Resume(q.result.status)

\* What the user types into the coordinate fields, as parseFloat reads it:
\* Red Square, a point with no object nearby, a latitude out of range, nothing
TypedCoordinates ==
    { [lat |-> 5572, lon |-> 3762], [lat |-> 5590, lon |-> 3790],
      [lat |-> 9500, lon |-> 3762], [lat |-> NaN, lon |-> NaN] }

\* the objects-count field at a click on the build button, as parseInt reads it
FormCounts == { NaN, MIN_OBJECTS - 1, MIN_OBJECTS, MAX_OBJECTS + 1 }

\* e.get('coords') of a click on the map: two points, or no coordinates
MapClicks == { RedSquare, Coord(5576, 3762), Coord(NaN, NaN) }

\* Reference data: the address the geocoder knows for a point, if any
GeocoderSeed(point) ==
    IF point = RedSquare THEN "Red Square"
    ELSE IF point = Coord(5576, 3762) THEN "Tverskaya"
    ELSE ""

\* the form as buildRoute reads it at a click
FormRead(count) ==
    [ lat |-> fields.lat, lon |-> fields.lon, count |-> count,
      address |-> fields.address, currentStart |-> currentStart ]

\* the user fills in the coordinate fields
TypeCoordinates(typed) ==
    /\ isAuthenticated(Current)
    /\ fields' = [fields EXCEPT !.lat = typed.lat, !.lon = typed.lon]
    /\ <<fields.lat, fields.lon>> # <<typed.lat, typed.lon>>
    /\ UNCHANGED <<store, tx, resp, call, object_stories, storyCache, requests, modal,
                   currentRoute, favoriteRouteIds, history, panel, loading, message,
                   markers, map, currentStart, auth>>

\* the user fills in the start-address field
TypeAddress(text) ==
    /\ isAuthenticated(Current)
    /\ fields' = [fields EXCEPT !.address = text]
    /\ fields.address # text
    /\ UNCHANGED <<store, tx, resp, call, object_stories, storyCache, requests, modal,
                   currentRoute, favoriteRouteIds, history, panel, loading, message,
                   markers, map, currentStart, auth>>

\* onMapClick(e): without coordinates the message is shown; else the start
\* point is set, the coordinate fields are written (toFixed(6) keeps the
\* hundredths of a degree) and reverseGeocode(lat, lon) sends its call
ClickMap(coords) ==
    /\ isAuthenticated(Current)
    /\ map = "ready"
    /\ HasSlots(1)
    /\ IF ~isFinite(coords.latitude) \/ ~isFinite(coords.longitude)
       THEN /\ message' = [type |-> "error", text |-> "no coordinates"]
            /\ UNCHANGED <<currentStart, fields, requests>>
       ELSE /\ currentStart' = [lat |-> coords.latitude, lng |-> coords.longitude]
            /\ fields' = [fields EXCEPT !.lat = coords.latitude, !.lon = coords.longitude]
            /\ requests' = requests \cup
                  { Request(requests, "geocode", coords, FALSE, "geocode") }
            /\ UNCHANGED message
    /\ UNCHANGED <<store, tx, resp, call, object_stories, storyCache, modal,
                   currentRoute, favoriteRouteIds, history, panel, loading,
                   markers, map, auth>>

\* GET /api/geocode/reverse?lat=..&lon=..: the address of the point, or an
\* answer without address
ServeGeocode(q, found) ==
    /\ q \in requests /\ q.op = "geocode" /\ q.state = "sent"
    /\ q.token # NULL
    /\ requests' = (requests \ {q}) \cup
          { Answered(q, 200, IF found THEN GeocoderSeed(q.arg) ELSE "") }
    /\ UNCHANGED <<store, tx, resp, call, object_stories, storyCache, modal,
                   currentRoute, favoriteRouteIds, history, panel, loading, message,
                   markers, map, fields, currentStart, auth>>

\* reverseGeocode resumes: an address in the answer is written into the
\* start-address field, whatever the fields hold by now; a failure is logged
ReceiveGeocode(q) ==
    /\ q \in requests /\ q.op = "geocode" /\ q.state = "done"
    /\ requests' = requests \ {q}
    /\ fields' = IF q.result.status = 200 /\ q.result.body # ""
                 THEN [fields EXCEPT !.address = q.result.body]
                 ELSE fields
    /\ UNCHANGED <<store, tx, resp, call, object_stories, storyCache, modal,
                   currentRoute, favoriteRouteIds, history, panel, loading, message,
                   markers, map, currentStart>>
    /\ Resume(q.result.status)

\* the coordinate buildRoute goes on with: the fields, else currentStart
FormStart(form) ==
    IF (~isFinite(form.lat) \/ ~isFinite(form.lon)) /\ form.currentStart # NoStart
    THEN Coord(form.currentStart.lat, form.currentStart.lng)
    ELSE Coord(form.lat, form.lon)

\* the checks of buildRoute before it calls the API
FormAccepted(form) ==
    /\ isFinite(FormStart(form).latitude) /\ isFinite(FormStart(form).longitude)
    /\ ~(js_lt(form.count, MIN_OBJECTS) \/ js_gt(form.count, MAX_OBJECTS))

\* displayRoute(route): the previous route is cleared, one placemark is added
\* per object in the order of sequence_number, and displayRouteInfo shows the
\* cards in the order of route.objects. Adding a placemark throws while map is
\* null, after clearRoute has hidden the panel.
displayRoute(route, mapState) ==
    IF mapState = "null"
    THEN [ thrown |-> TRUE, panel |-> NoRoute, markers |-> << >> ]
    ELSE [ thrown |-> FALSE, panel |-> route,
           markers |-> LET objects == SortBySequence(Range(route.objects))
                       IN  [ i \in DOMAIN objects |-> objects[i].object_id ] ]

\* buildRoute() of map.js up to its await
ClickBuildRoute(count) ==
    /\ isAuthenticated(Current)
    /\ ~loading
    /\ HasSlots(1)
    /\ auto_increment <= MaxRoutes
    /\ IF FormAccepted(FormRead(count))
       THEN /\ loading' = TRUE
            /\ currentRoute' = NoRoute
            /\ panel' = NoRoute
            /\ markers' = << >>
            /\ requests' = requests \cup
                  { Request(requests, "build",
                            [start |-> FormStart(FormRead(count)), count |-> count,
                             address |-> fields.address], FALSE, "build") }
            /\ UNCHANGED message
       ELSE /\ message' = [type |-> "error", text |-> "invalid form"]
            /\ UNCHANGED <<loading, currentRoute, panel, markers, requests>>
    /\ UNCHANGED <<store, tx, resp, call, object_stories, storyCache, modal, favoriteRouteIds, history,
                   map, fields, currentStart, auth>>

\* POST /api/route reaches its handler
ServeBuildRoute(q) ==
    /\ q \in requests /\ q.op = "build"
    /\ resp.op # "create_route"
    /\ q.token # NULL
    /\ CreateRoute(PageUser, q.arg.start, q.arg.address, q.arg.count)

\* a resumption that sends the call again when it failed
ReceiveBuild_retrying(q) ==
    /\ q \in requests /\ q.op = "build"
    /\ resp.op = "create_route"
    /\ resp' = NoResp
    /\ IF resp.status = 201
       THEN /\ currentRoute' = resp.body
            /\ panel' = displayRoute(resp.body, map).panel
            /\ markers' = displayRoute(resp.body, map).markers
            /\ requests' = (requests \ {q}) \cup
                  { Request(requests \ {q}, "routes", 0, FALSE, "build") }
            /\ UNCHANGED <<loading, message>>
       ELSE /\ message' = [type |-> "error", text |-> "request failed"]
            /\ requests' = (requests \ {q}) \cup
                  { Request(requests \ {q}, "build", q.arg, FALSE, "build") }
            /\ UNCHANGED <<currentRoute, panel, markers, loading>>
    /\ UNCHANGED <<store, tx, call, object_stories, storyCache, modal, favoriteRouteIds, history,
                   map, fields, currentStart>>
    /\ Resume(resp.status)

\* buildRoute() resumes after await api.buildRoute(...): the route is drawn and
\* the history is loaded, or the error is shown
ReceiveBuild(q) ==
    /\ q \in requests /\ q.op = "build"
    /\ resp.op = "create_route"
    /\ resp' = NoResp
    /\ IF resp.status = 201
       THEN /\ currentRoute' = resp.body
            /\ panel' = displayRoute(resp.body, map).panel
            /\ markers' = displayRoute(resp.body, map).markers
            /\ IF displayRoute(resp.body, map).thrown
               THEN /\ message' = [type |-> "error", text |-> "display failed"]
                    /\ loading' = FALSE
                    /\ requests' = requests \ {q}
               ELSE /\ requests' = (requests \ {q}) \cup
                          { Request(requests \ {q}, "routes", 0, FALSE, "build") }
                    /\ UNCHANGED <<loading, message>>
       ELSE /\ message' = [type |-> "error", text |-> "request failed"]
            /\ loading' = FALSE
            /\ requests' = requests \ {q}
            /\ UNCHANGED <<currentRoute, panel, markers>>
    /\ UNCHANGED <<store, tx, call, object_stories, storyCache, modal, favoriteRouteIds, history,
                   map, fields, currentStart>>
    /\ Resume(resp.status)

\* GET /api/routes
ServeRoutes(q) ==
    /\ q \in requests /\ q.op = "routes" /\ q.state = "sent"
    /\ q.token # NULL
    /\ requests' = (requests \ {q}) \cup {Answered(q, 200, get_routes(routes, PageUser).body)}
    /\ UNCHANGED <<store, tx, resp, call, object_stories, storyCache, modal,
                   currentRoute, favoriteRouteIds, history, panel, loading, message,
                   markers, map, fields, currentStart, auth>>

\* renderRouteHistory(routes): favoriteRouteIds and the items of routes-list
renderRouteHistory(body) ==
    { body[i].id : i \in { j \in DOMAIN body : body[j].route.is_favorite } }

\* loadRouteHistory() resumes. The answer is rendered; a failed call is caught:
\* favoriteRouteIds stays and routes-list shows the error text in place of its
\* items. Then the caller goes on: buildRoute and the two favorite handlers
\* show their success message, onPageReady shows nothing.
ReceiveRoutes(q) ==
    /\ q \in requests /\ q.op = "routes" /\ q.state = "done"
    /\ requests' = requests \ {q}
    /\ IF q.result.status = 200
       THEN /\ favoriteRouteIds' = renderRouteHistory(q.result.body)
            /\ history' = renderRouteHistory(q.result.body)
       ELSE /\ history' = {}
            /\ UNCHANGED favoriteRouteIds
    /\ message' = IF q.then = "load" THEN message
                  ELSE [type |-> "success", text |-> q.then]
    /\ loading' = IF q.then = "build" THEN FALSE ELSE loading
    /\ UNCHANGED <<store, tx, resp, call, object_stories, storyCache, modal,
                   currentRoute, panel,
                   markers, map, fields, currentStart>>
    /\ Resume(q.result.status)

\* the toggle-favorite button of the drawn route
ClickToggleFavorite ==
    /\ isAuthenticated(Current)
    /\ panel # NoRoute
    /\ HasSlots(1)
    /\ requests' = requests \cup
          { Request(requests, "favorite", panel.route_id,
                    panel.route_id \notin favoriteRouteIds, "toggle") }
    /\ UNCHANGED <<store, tx, resp, call, object_stories, storyCache, modal,
                   currentRoute, favoriteRouteIds, history, panel, loading, message,
                   markers, map, fields, currentStart, auth>>

\* the star of a route in the list of favorites
ClickRouteFavBtn(rid) ==
    /\ isAuthenticated(Current)
    /\ rid \in history
    /\ HasSlots(1)
    /\ requests' = requests \cup { Request(requests, "favorite", rid, FALSE, "remove") }
    /\ UNCHANGED <<store, tx, resp, call, object_stories, storyCache, modal,
                   currentRoute, favoriteRouteIds, history, panel, loading, message,
                   markers, map, fields, currentStart, auth>>

\* PATCH /api/routes/{id}/favorite?is_favorite=value: one UPDATE statement
ServeSetFavorite(q) ==
    /\ q \in requests /\ q.op = "favorite" /\ q.state = "sent"
    /\ q.token # NULL
    /\ routes' = set_favorite(routes, q.arg, PageUser, q.value)
    /\ requests' = (requests \ {q}) \cup
          { Answered(q, favorite_status(routes, q.arg, PageUser), <<>>) }
    /\ UNCHANGED <<heritage_objects, route_objects, auto_increment, tx, resp, call,
                   object_stories, storyCache, modal, currentRoute,
                   favoriteRouteIds, history, panel, loading, message,
                   markers, map, fields, currentStart, auth>>

\* the click handler resumes after await api.setRouteFavorite(...)
ReceiveFavorite(q) ==
    /\ q \in requests /\ q.op = "favorite" /\ q.state = "done"
    /\ IF q.result.status = 200
       THEN /\ requests' = (requests \ {q}) \cup
                  { Request(requests \ {q}, "routes", q.arg, q.value, q.then) }
            /\ UNCHANGED message
       ELSE /\ requests' = requests \ {q}
            /\ message' = [type |-> "error", text |-> "request failed"]
    /\ UNCHANGED <<store, tx, resp, call, object_stories, storyCache, modal,
                   currentRoute, favoriteRouteIds, history, panel, loading,
                   markers, map, fields, currentStart>>
    /\ Resume(q.result.status)

\* ymaps.ready(initMap): the map is created
InitMap ==
    /\ map = "null"
    /\ map' = "ready"
    /\ UNCHANGED <<store, tx, resp, call, object_stories, storyCache, requests, modal,
                   currentRoute, favoriteRouteIds, history, panel, loading, message, markers,
                   fields, currentStart, auth>>

\* A click on a route of the list of favorites: openSavedRoute(routeId) up to
\* its await. The items are those renderRouteHistory has put in routes-list.
ClickHistoryItem(rid) ==
    /\ isAuthenticated(Current)
    /\ rid \in history
    /\ HasSlots(1)
    /\ loading' = TRUE
    /\ currentRoute' = NoRoute
    /\ panel' = NoRoute
    /\ markers' = << >>
    /\ requests' = requests \cup { Request(requests, "route", rid, FALSE, "open") }
    /\ UNCHANGED <<store, tx, resp, call, object_stories, storyCache, modal,
                   favoriteRouteIds, history, message, map, fields, currentStart, auth>>

\* GET /api/routes/{route_id}
ServeGetRoute(q) ==
    /\ q \in requests /\ q.op = "route" /\ q.state = "sent"
    /\ q.token # NULL
    /\ requests' = (requests \ {q}) \cup
          { Answered(q, get_route(routes, route_objects, q.arg, PageUser).status,
                        get_route(routes, route_objects, q.arg, PageUser).body) }
    /\ UNCHANGED <<store, tx, resp, call, object_stories, storyCache, modal,
                   currentRoute, favoriteRouteIds, history, panel, loading, message,
                   markers, map, fields, currentStart, auth>>

\* The call fails: the server answers with an error status or the fetch is
\* rejected (500 stands for both), or the token is refused (401).
ServeUnavailable(q, status) ==
    /\ q \in requests
    /\ IF q.op = "build"
       THEN /\ resp.op # "create_route" /\ tx.pc = "idle"
            /\ resp' = CreateResponse(q.arg.start, q.arg.count, status, <<>>)
            /\ UNCHANGED requests
       ELSE /\ q.state = "sent"
            /\ requests' = (requests \ {q}) \cup { Answered(q, status, <<>>) }
            /\ UNCHANGED resp
    /\ UNCHANGED <<store, tx, call, object_stories, storyCache, modal,
                   currentRoute, favoriteRouteIds, history, panel, loading, message,
                   markers, map, fields, currentStart, auth>>

\* an openSavedRoute whose failure leaves the button as it is
ReceiveRoute_without_finally(q) ==
    /\ q \in requests /\ q.op = "route" /\ q.state = "done"
    /\ requests' = requests \ {q}
    /\ IF q.result.status = 200
       THEN /\ currentRoute' = q.result.body
            /\ panel' = displayRoute(q.result.body, map).panel
            /\ markers' = displayRoute(q.result.body, map).markers
            /\ message' = IF displayRoute(q.result.body, map).thrown
                          THEN [type |-> "error", text |-> "display failed"]
                          ELSE [type |-> "success", text |-> "open"]
            /\ loading' = displayRoute(q.result.body, map).thrown /\ loading
       ELSE /\ message' = [type |-> "error", text |-> "request failed"]
            /\ UNCHANGED <<currentRoute, panel, markers, loading>>
    /\ UNCHANGED <<store, tx, resp, call, object_stories, storyCache, modal,
                   favoriteRouteIds, history, map, fields, currentStart>>
    /\ Resume(q.result.status)

\* openSavedRoute resumes after await api.getRoute(routeId): the route is
\* drawn or the error is shown, and the button is enabled in the finally
ReceiveRoute(q) ==
    /\ q \in requests /\ q.op = "route" /\ q.state = "done"
    /\ requests' = requests \ {q}
    /\ IF q.result.status = 200
       THEN /\ currentRoute' = q.result.body
            /\ panel' = displayRoute(q.result.body, map).panel
            /\ markers' = displayRoute(q.result.body, map).markers
            /\ message' = IF displayRoute(q.result.body, map).thrown
                          THEN [type |-> "error", text |-> "display failed"]
                          ELSE [type |-> "success", text |-> "open"]
       ELSE /\ message' = [type |-> "error", text |-> "request failed"]
            /\ UNCHANGED <<currentRoute, panel, markers>>
    /\ loading' = FALSE
    /\ UNCHANGED <<store, tx, resp, call, object_stories, storyCache, modal,
                   favoriteRouteIds, history, map, fields, currentStart>>
    /\ Resume(q.result.status)

\* onPageReady() has run for a user with no route yet: the session was found,
\* the map is created and the loadRouteHistory() it started awaits its answer.
\* The user has clicked Red Square on the map, where the geocoder found no
\* address, or has not clicked the map.
InitPage ==
    /\ LoggedIn
    /\ heritage_objects = ObjectIds
    /\ routes = << >>
    /\ route_objects = {}
    /\ auto_increment = 1
    /\ tx = IdleTx
    /\ resp = NoResp
    /\ call = NoCall
    /\ object_stories = {}
    /\ storyCache = << >>
    /\ requests = { Request({}, "routes", 0, FALSE, "load") }
    /\ modal = NoModal
    /\ currentRoute = NoRoute
    /\ favoriteRouteIds = {}
    /\ history = {}
    /\ panel = NoRoute
    /\ loading = FALSE
    /\ message = NoMessage
    /\ markers = << >>
    /\ map = "ready"
    /\ \/ /\ currentStart = NoStart
          /\ fields = EmptyFields
       \/ /\ currentStart = [lat |-> RedSquare.latitude, lng |-> RedSquare.longitude]
          /\ fields = [lat |-> RedSquare.latitude, lon |-> RedSquare.longitude,
                       address |-> ""]

NextPage ==
    \/ \E typed \in TypedCoordinates : TypeCoordinates(typed)
    \/ \E text \in StartAddresses : TypeAddress(text)
    \/ \E count \in FormCounts : ClickBuildRoute(count)
    \/ \E q \in requests : ServeBuildRoute(q)
    \/ InsertRoute
    \/ InsertRouteObject
    \/ StoreFailure
    \/ Commit
    \/ \E q \in requests : ReceiveBuild(q)
    \/ \E q \in requests : ServeRoutes(q)
    \/ \E q \in requests, status \in {401, 500} : ServeUnavailable(q, status)
    \/ \E q \in requests : ReceiveRoutes(q)

SpecPage == InitPage /\ [][NextPage]_vars

\* The start is chosen on the map; the address comes from the geocoder or is
\* typed.
NextGeocode ==
    \/ \E coords \in MapClicks : ClickMap(coords)
    \/ \E q \in requests, found \in BOOLEAN : ServeGeocode(q, found)
    \/ \E q \in requests, status \in {401, 500} : ServeUnavailable(q, status)
    \/ \E q \in requests : ReceiveGeocode(q)
    \/ \E text \in StartAddresses : TypeAddress(text)
    \/ ClickBuildRoute(MIN_OBJECTS)
    \/ \E q \in requests : ServeBuildRoute(q)
    \/ InsertRoute
    \/ InsertRouteObject
    \/ StoreFailure
    \/ Commit
    \/ \E q \in requests : ReceiveBuild(q)
    \/ \E q \in requests : ServeRoutes(q)
    \/ \E q \in requests : ReceiveRoutes(q)

SpecGeocode == Init /\ [][NextGeocode]_vars

\* The page after a route of two objects was built from Red Square and drawn.
\* One more route id is left: the ids between were used up by saves that failed.
DrawnLegs == RouteLegs(RedSquare, build_greedy_route(RedSquare, <<1, 2>>))

RouteDrawn ==
    /\ heritage_objects = ObjectIds
    /\ routes = [ rid \in {1} |-> RouteRow(PageUser, RedSquare, "Red Square", DrawnLegs) ]
    /\ route_objects = { RouteObjectRow(1, DrawnLegs[i]) : i \in 1..Len(DrawnLegs) }
    /\ auto_increment = MaxRoutes
    /\ tx = IdleTx
    /\ resp = NoResp
    /\ call = NoCall
    /\ object_stories = {}
    /\ storyCache = << >>
    /\ requests = {}
    /\ modal = NoModal
    /\ currentRoute = RouteResponse(routes, route_objects, 1)
    /\ favoriteRouteIds = {}
    /\ history = {}
    /\ panel = currentRoute
    /\ loading = FALSE
    /\ message = [type |-> "success", text |-> "build"]
    /\ markers = displayRoute(currentRoute, "ready").markers
    /\ map = "ready"
    /\ fields = [lat |-> 5572, lon |-> 3762, address |-> "Red Square"]
    /\ currentStart = NoStart
    /\ LoggedIn

\* The page after it loaded the history of a user with one favorite route,
\* before the map is ready. One more route id is left.
HistoryLoaded ==
    /\ heritage_objects = ObjectIds
    /\ routes = [ rid \in {1} |->
                    [ RouteRow(PageUser, RedSquare, "Red Square", DrawnLegs)
                        EXCEPT !.is_favorite = TRUE ] ]
    /\ route_objects = { RouteObjectRow(1, DrawnLegs[i]) : i \in 1..Len(DrawnLegs) }
    /\ auto_increment = MaxRoutes
    /\ tx = IdleTx
    /\ resp = NoResp
    /\ call = NoCall
    /\ object_stories = {}
    /\ storyCache = << >>
    /\ requests = {}
    /\ modal = NoModal
    /\ currentRoute = NoRoute
    /\ favoriteRouteIds = {1}
    /\ history = {1}
    /\ panel = NoRoute
    /\ loading = FALSE
    /\ message = NoMessage
    /\ markers = << >>
    /\ map = "null"
    /\ fields = [lat |-> 5572, lon |-> 3762, address |-> "Red Square"]
    /\ currentStart = NoStart
    /\ LoggedIn

\* the steps of the transaction of a build
TxStep == InsertRoute \/ InsertRouteObject \/ StoreFailure \/ Commit

NextOpen ==
    \/ InitMap
    \/ \E rid \in RouteIds : ClickHistoryItem(rid)
    \/ \E q \in requests : ServeGetRoute(q)
    \/ \E q \in requests, status \in {401, 500} : ServeUnavailable(q, status)
    \/ \E q \in requests : ReceiveRoute(q)
    \/ ClickBuildRoute(MIN_OBJECTS)
    \/ \E q \in requests : ServeBuildRoute(q)
    \/ InsertRoute
    \/ InsertRouteObject
    \/ StoreFailure
    \/ Commit
    \/ \E q \in requests : ReceiveBuild(q)
    \/ \E q \in requests : ServeRoutes(q)
    \/ \E q \in requests : ReceiveRoutes(q)

SpecOpen == HistoryLoaded /\ [][NextOpen]_vars

\* what the network, the store and the event loop do without the user, the
\* start of the handler of POST /api/route apart
Progress ==
    \/ InitMap
    \/ \E q \in requests : ServeGetRoute(q)
    \/ \E q \in requests, status \in {401, 500} : ServeUnavailable(q, status)
    \/ \E q \in requests : ReceiveRoute(q)
    \/ TxStep
    \/ \E q \in requests : ReceiveBuild(q)
    \/ \E q \in requests : ServeRoutes(q)
    \/ \E q \in requests : ReceiveRoutes(q)

\* a call of POST /api/route waits and its handler can start
BuildServable ==
    /\ \E q \in requests : q.op = "build"
    /\ resp.op # "create_route"
    /\ tx.pc = "idle"
    /\ auto_increment <= MaxRoutes

\* Calls are answered or fail and answers resume the handlers that await them,
\* as long as there are any; the user need not click. The last conjunct is the
\* weak fairness of the handler of POST /api/route, with its enabling
\* condition written as BuildServable.
SpecOpenFair ==
    /\ HistoryLoaded
    /\ [][NextOpen]_vars
    /\ WF_vars(Progress)
    /\ \/ []<>(~BuildServable)
       \/ []<><<\E q \in requests : ServeBuildRoute(q)>>_vars

\* A saved route of three objects whose legs the server sends in any order
LongLegs == RouteLegs(RedSquare, build_greedy_route(RedSquare, <<1, 2, 3>>))

\* every order of a set of rows
Orders(rows) ==
    { s \in [1..Cardinality(rows) -> rows] : \A i, j \in DOMAIN s : i # j => s[i] # s[j] }

\* The page while openSavedRoute awaits route 1, whose answer is on its way
RouteArriving ==
    /\ LoggedIn
    /\ heritage_objects = ObjectIds
    /\ routes = [ rid \in {1} |->
                    [ RouteRow(PageUser, RedSquare, "Red Square", LongLegs)
                        EXCEPT !.is_favorite = TRUE ] ]
    /\ route_objects = { RouteObjectRow(1, LongLegs[i]) : i \in 1..Len(LongLegs) }
    /\ auto_increment = MaxRoutes
    /\ tx = IdleTx
    /\ resp = NoResp
    /\ call = NoCall
    /\ object_stories = {}
    /\ storyCache = << >>
    /\ \E objects \in Orders(route_objects) :
          requests = { Answered(Request({}, "route", 1, FALSE, "open"), 200,
                                [ RouteResponse(routes, route_objects, 1)
                                    EXCEPT !.objects = objects ]) }
    /\ modal = NoModal
    /\ currentRoute = NoRoute
    /\ favoriteRouteIds = {1}
    /\ history = {1}
    /\ panel = NoRoute
    /\ loading = TRUE
    /\ message = NoMessage
    /\ markers = << >>
    /\ map = "ready"
    /\ fields = [lat |-> 5572, lon |-> 3762, address |-> "Red Square"]
    /\ currentStart = NoStart

NextDisplay ==
    \/ \E q \in requests : ReceiveRoute(q)
    \/ \E index \in 1..Len(LongLegs) : ClickObjectCard(index)
    \/ \E q \in requests : StoryLookup(q)
    \/ \E q \in requests : StoryGenerate(q, "story A")
    \/ \E q \in requests, status \in {401, 500} : ServeUnavailable(q, status)
    \/ \E q \in requests : ReceiveStory(q)

SpecDisplay == RouteArriving /\ [][NextDisplay]_vars

NextFavorite ==
    \/ ClickToggleFavorite
    \/ \E rid \in RouteIds : ClickRouteFavBtn(rid)
    \/ \E q \in requests : ServeSetFavorite(q)
    \/ \E q \in requests : ReceiveFavorite(q)
    \/ \E q \in requests : ServeRoutes(q)
    \/ \E q \in requests, status \in {401, 500} : ServeUnavailable(q, status)
    \/ \E q \in requests : ReceiveRoutes(q)

SpecFavorite == RouteDrawn /\ [][NextFavorite]_vars

NextStory ==
    \/ \E index \in 1..MIN_OBJECTS : ClickObjectCard(index)
    \/ CloseModal
    \/ \E q \in requests : StoryLookup(q)
    \/ \E q \in requests, outcome \in Texts \cup {"none", "failure"} : StoryGenerate(q, outcome)
    \/ \E q \in requests, status \in {401, 500} : ServeUnavailable(q, status)
    \/ \E q \in requests : ReceiveStory(q)

SpecStory == RouteDrawn /\ [][NextStory]_vars

\* A session on the page: stories, one more route build and favorite updates
\* together, each with few inputs; the token may be refused on any call.
NextSession ==
    \/ ClickObjectCard(1)
    \/ \E q \in requests : StoryLookup(q)
    \/ \E q \in requests : StoryGenerate(q, "story A")
    \/ \E q \in requests : ReceiveStory(q)
    \/ ClickBuildRoute(MIN_OBJECTS)
    \/ \E q \in requests : ServeBuildRoute(q)
    \/ InsertRoute
    \/ InsertRouteObject
    \/ StoreFailure
    \/ Commit
    \/ \E q \in requests : ReceiveBuild(q)
    \/ \E q \in requests : ServeRoutes(q)
    \/ \E q \in requests : ServeUnavailable(q, 401)
    \/ \E q \in requests : ReceiveRoutes(q)
    \/ ClickToggleFavorite
    \/ \E q \in requests : ServeSetFavorite(q)
    \/ \E q \in requests : ReceiveFavorite(q)

SpecSession == RouteDrawn /\ [][NextSession]_vars


----------------------------------------------------------------------------
(* Properties of the route builder *)

\* the object ids of the legs of a route, as a sequence
LegObjects(legs) == [ k \in 1..Len(legs) |-> legs[k].object_id ]

\* the distinct candidates of a call
CandidateSet == Range(call.candidates)

Reachable(start) == WithinRadius(heritage_objects, start, MAX_RADIUS)

PositionBefore(k) ==
    IF k = 1 THEN call.start ELSE HeritageLocation(call.legs[k - 1].object_id)

\* the candidates not visited before leg k: the objects with an entry of the
\* candidate sequence that no earlier leg has taken (without repeated ids, the
\* candidates that are not in legs 1..k-1)
Unvisited(k) ==
    { o \in CandidateSet :
        Cardinality({ i \in DOMAIN call.candidates : call.candidates[i] = o })
            > Cardinality({ j \in 1..(k - 1) : call.legs[j].object_id = o }) }

NoRepeatedObject(rows) ==
    \A a, b \in rows : a.object_id = b.object_id => a = b

\* C3: no object id appears twice among the legs of a route, built or persisted,
\* also when the candidate sequence holds the same object id more than once.
C3_NoRepeatedObject ==
    /\ call.state = "returned" =>
          \A i, j \in 1..Len(call.legs) :
              call.legs[i].object_id = call.legs[j].object_id => i = j
    /\ \A rid \in DOMAIN routes : NoRepeatedObject(ObjectsOfRoute(route_objects, rid))

----------------------------------------------------------------------------
(* Properties of the route store *)

\* the legs stored for a route
StoredLegs(rid) == ObjectsOfRoute(route_objects, rid)

\* C4: in every reachable state, after any builds, favorite updates and
\* deletions of heritage objects, the sequence numbers of the legs of each
\* route are exactly 1..k, k being its number of legs: no gap, no duplicate.
C4_SequenceContiguous ==
    \A rid \in DOMAIN routes :
        { ro.sequence_number : ro \in StoredLegs(rid) } = 1..Cardinality(StoredLegs(rid))

\* the sum of distance_from_previous over a set of rows
RECURSIVE SumRows(_)
SumRows(rows) ==
    IF rows = {} THEN 0
    ELSE LET ro == CHOOSE r \in rows : TRUE
         IN  ro.distance_from_previous + SumRows(rows \ {ro})

\* C5: in every reachable state the total_distance of each route is the sum of
\* the distance_from_previous of its legs, the first leg being measured from the
\* start location of the route.
C5_TotalDistance ==
    \A rid \in DOMAIN routes :
        /\ routes[rid].total_distance = SumRows(StoredLegs(rid))
        /\ \A ro \in StoredLegs(rid) :
              ro.sequence_number = 1 =>
                  ro.distance_from_previous
                      = DistanceFrom(routes[rid].start_location, ro.object_id)

\* C6: the objects_count of every route, returned or persisted, is its number
\* of legs, and a route that was built has at most the requested number.
C6_ObjectsCount ==
    /\ \A rid \in DOMAIN routes :
          routes[rid].objects_count = Cardinality(StoredLegs(rid))
    /\ (resp.op \in {"create_route", "get_route", "set_favorite"} /\ resp.status \in {200, 201})
          => resp.body.route.objects_count = Len(resp.body.objects)
    /\ (resp.op = "create_route" /\ resp.status = 201)
          => resp.body.route.objects_count <= resp.request.objects_count

\* C7: save is all-or-nothing: a header that is present has all its legs, a
\* save that failed or has not committed left neither a header nor a leg, and
\* no reachable state holds a header with only part of its legs.
C7_AllOrNothing ==
    /\ (resp.op = "create_route" /\ resp.status = 201) =>
          /\ resp.body.route_id \in DOMAIN routes
          /\ Len(resp.body.objects) > 0
          /\ Range(resp.body.objects) = StoredLegs(resp.body.route_id)
    /\ \A rid \in RouteIds \ DOMAIN routes : StoredLegs(rid) = {}
    /\ tx.pc # "idle" => tx.route_id \notin DOMAIN routes
    /\ \A rid \in DOMAIN routes :
          Cardinality(StoredLegs(rid)) = routes[rid].objects_count

\* the steps of a save, one by one: only the commit changes what is stored, it
\* adds the header with every leg, and a failure leaves the store as it was
SaveIsAtomic ==
    [][ /\ (tx.pc # "idle" /\ tx'.pc = "idle" /\ resp'.status = 201) =>
              /\ DOMAIN routes' = DOMAIN routes \cup {tx.route_id}
              /\ tx.route_id \notin DOMAIN routes
              /\ routes'[tx.route_id].objects_count = Len(tx.legs)
              /\ ObjectsOfRoute(route_objects', tx.route_id) =
                    { RouteObjectRow(tx.route_id, tx.legs[i]) : i \in 1..Len(tx.legs) }
              /\ Cardinality(ObjectsOfRoute(route_objects', tx.route_id)) = Len(tx.legs)
        /\ (tx.pc # "idle" /\ tx'.pc = "idle" /\ resp'.status = 500) =>
              /\ routes' = routes
              /\ route_objects' = route_objects
        /\ (tx.pc # "idle" /\ tx'.pc # "idle") =>
              /\ DOMAIN routes' = DOMAIN routes
              /\ route_objects' \subseteq route_objects
      ]_vars

\* C8: get answers with the route and all its legs in ascending sequence_number
\* exactly when the route exists and its user_id is the caller's; otherwise it
\* answers NotFound, as it does for a route that does not exist.
C8_GetOwnership ==
    resp.op = "get_route" =>
        LET rid == resp.request.route_id
            uid == resp.request.user_id
        IN  IF rid \in DOMAIN routes /\ routes[rid].user_id = uid
            THEN /\ resp.status = 200
                 /\ resp.body.route_id = rid
                 /\ resp.body.route = routes[rid]
                 /\ Range(resp.body.objects) = StoredLegs(rid)
                 /\ Len(resp.body.objects) = Cardinality(StoredLegs(rid))
                 /\ \A i, j \in 1..Len(resp.body.objects) :
                       i < j => resp.body.objects[i].sequence_number
                                    < resp.body.objects[j].sequence_number
            ELSE /\ resp.status = 404
                 /\ resp.body = <<>>

\* get was asked for a route that exists by a user who does not own it
C8_Witness ==
    /\ resp.op = "get_route"
    /\ resp.request.route_id \in DOMAIN routes
    /\ routes[resp.request.route_id].user_id # resp.request.user_id
    /\ Len(get_route(routes, route_objects, resp.request.route_id,
                     routes[resp.request.route_id].user_id).body.objects) >= 2

\* C9: setFavorite by the owner succeeds and leaves is_favorite at the value
\* asked for; applied again with the same value it succeeds again and changes
\* nothing: twice is the same as once.
C9_SetFavoriteIdempotent ==
    /\ [] ((resp.op = "set_favorite" /\ resp.status = 200) =>
              LET rid == resp.request.route_id
                  uid == resp.request.user_id
                  value == resp.request.value
              IN  /\ routes[rid].is_favorite = value
                  /\ resp.body.route.is_favorite = value
                  /\ favorite_status(routes, rid, uid) = 200
                  /\ set_favorite(routes, rid, uid, value) = routes)
    /\ [][ (/\ resp.op = "set_favorite"
            /\ resp'.op = "set_favorite"
            /\ resp'.request = resp.request
            /\ resp.status = 200)
              => (resp' = resp /\ routes' = routes) ]_vars
    /\ [] (resp.op = "set_favorite" =>
              (resp.status = 200 <=>
                  /\ resp.request.route_id \in DOMAIN routes
                  /\ routes[resp.request.route_id].user_id = resp.request.user_id))

\* the owner has set the flag of a route that has legs
C9_Witness ==
    /\ resp.op = "set_favorite"
    /\ resp.status = 200
    /\ resp.request.value = TRUE
    /\ routes[resp.request.route_id].is_favorite = TRUE
    /\ Len(resp.body.objects) >= 2

\* the stored fields of a route other than is_favorite
ImmutableFields(row) ==
    [ user_id |-> row.user_id, start_location |-> row.start_location,
      start_address |-> row.start_address, total_distance |-> row.total_distance,
      objects_count |-> row.objects_count ]

\* C10: a step of setFavorite, get, list or a route build changes no stored
\* field of a route that exists other than is_favorite, and none of its legs,
\* and the route goes on existing.
C10_ImmutableExceptFavorite ==
    [][ heritage_objects' = heritage_objects =>
          \A rid \in DOMAIN routes :
              /\ rid \in DOMAIN routes'
              /\ ImmutableFields(routes'[rid]) = ImmutableFields(routes[rid])
              /\ ObjectsOfRoute(route_objects', rid) = StoredLegs(rid)
      ]_vars

\* two routes of two users are stored and setFavorite has marked the first one
C10_Witness ==
    /\ DOMAIN routes = {1, 2}
    /\ routes[1].user_id # routes[2].user_id
    /\ routes[1].is_favorite
    /\ ~routes[2].is_favorite
    /\ resp.op = "set_favorite"
    /\ Cardinality(StoredLegs(1)) >= 2

----------------------------------------------------------------------------
(* Properties of concurrent favorite updates *)

\* the setFavorite calls a step serves; a call that fails on its way is not served
ServedFavorites ==
    { q \in requests : ServeSetFavorite(q) }

\* C11: setFavorite calls in flight together on one route are served one at a
\* time; each leaves is_favorite at the value it carries and every other field
\* and leg as it was, and no other step changes the flag: when all are served
\* the flag is the value of the call served last.
C11_LastWriteWins ==
    [][ /\ Cardinality(ServedFavorites) <= 1
        /\ \A q \in ServedFavorites :
              /\ q.arg \in DOMAIN routes /\ routes[q.arg].user_id = PageUser
              /\ routes'[q.arg].is_favorite = q.value
              /\ ImmutableFields(routes'[q.arg]) = ImmutableFields(routes[q.arg])
              /\ \A rid \in DOMAIN routes \ {q.arg} : routes'[rid] = routes[rid]
              /\ DOMAIN routes' = DOMAIN routes
              /\ route_objects' = route_objects
        /\ ServedFavorites = {} => routes' = routes
      ]_vars

\* two calls on the same route with different values were in flight together:
\* one has been served and the flag holds its value, the other is still to come
C11_Witness ==
    \E q1, q2 \in requests :
        /\ q1.op = "favorite" /\ q2.op = "favorite"
        /\ q1.arg = q2.arg
        /\ q1.value # q2.value
        /\ q1.state = "done" /\ q1.result.status = 200
        /\ q2.state = "sent"
        /\ routes[q1.arg].is_favorite = q1.value

----------------------------------------------------------------------------
(* Properties of the story cache *)

\* a step that answers or consumes no call in flight and leaves the modal shown
\* with new content: openAiStoryModal was called
ModalOpened ==
    /\ \A q \in requests : q \in requests'
    /\ modal'.open
    /\ modal' # modal

\* C12: a story request for an object whose story is in the cache shows the
\* stored text, sends no call to the story endpoint and leaves the cache as it
\* was.
C12_CacheHit ==
    [][ (ModalOpened /\ modal'.object_id \in DOMAIN storyCache) =>
            /\ modal'.body = storyCache[modal'.object_id]
            /\ requests' = requests
            /\ storyCache' = storyCache
            /\ object_stories' = object_stories
      ]_vars

\* the modal shows the cached story of an object while the two calls of a click
\* on another object are still to be served: the click that opened it was a hit
C12_Witness ==
    /\ modal.open
    /\ modal.object_id \in DOMAIN storyCache
    /\ modal.body = storyCache[modal.object_id]
    /\ Cardinality(requests) = 2
    /\ \A q \in requests : q.op = "story" /\ q.state = "sent" /\ q.arg # modal.object_id

\* the calls to the story endpoint a step sends for an object
StoryCallsSent(id) ==
    { q \in requests' : q \notin requests /\ q.op = "story" /\ q.state = "sent" /\ q.arg = id }

\* the answers to story calls a step hands to openAiStoryModal
StoryAnswersReceived ==
    { q \in requests : q.op = "story" /\ q.state = "done" /\ q \notin requests' }

\* the answer carries a story text
HasStory(q) == q.result.status = 200 /\ q.result.body.story # ""

\* C13: a story request for an object that is not in the cache calls the story
\* endpoint exactly once, and when the call succeeds the text is stored under
\* the object id as it is shown.
C13_MissCallsOnce ==
    [][ /\ (ModalOpened /\ modal'.object_id \notin DOMAIN storyCache) =>
              Cardinality(StoryCallsSent(modal'.object_id)) = 1
        /\ \A q \in StoryAnswersReceived :
              HasStory(q) =>
                  /\ q.arg \in DOMAIN storyCache'
                  /\ storyCache'[q.arg] = q.result.body.story
                  /\ modal'.body = q.result.body.story
      ]_vars

\* C14: a story request that ends without a generated story (the endpoint
\* fails or answers with no story text) writes nothing to the cache, so the
\* cache never holds an entry that is not a story and the next request for the
\* object is a miss again.
C14_FailureNotCached ==
    [][ \A q \in StoryAnswersReceived :
            ~HasStory(q) =>
                /\ storyCache' = storyCache
                /\ object_stories' = object_stories
      ]_vars

\* the story calls for an object that are in flight
StoryCallsInFlight(id) == { q \in requests : q.op = "story" /\ q.arg = id }

\* C15: two story requests for an object, one after the other: the first,
\* completing with a story, shows the text and leaves it in the cache; the
\* second, starting when the first is complete, shows that same cached text and
\* calls neither the endpoint nor the generator.
C15_SequentialIdempotent ==
    [][ /\ \A q \in StoryAnswersReceived :
              HasStory(q) =>
                  /\ modal'.body = q.result.body.story
                  /\ q.arg \in DOMAIN storyCache'
                  /\ storyCache'[q.arg] = modal'.body
        /\ (/\ ModalOpened
            /\ modal'.object_id \in DOMAIN storyCache
            /\ StoryCallsInFlight(modal'.object_id) = {}) =>
              /\ modal'.body = storyCache[modal'.object_id]
              /\ storyCache'[modal'.object_id] = storyCache[modal'.object_id]
              /\ \A q \in requests' : ~(q.op = "story" /\ q.arg = modal'.object_id)
              /\ object_stories' = object_stories
      ]_vars

\* the story of an object was generated, cached by the server and the page, and
\* a later click shows it from the cache while the calls for another object wait
C15_Witness ==
    /\ modal.open
    /\ modal.object_id \in DOMAIN storyCache
    /\ storyCache[modal.object_id] \in Texts
    /\ modal.body = storyCache[modal.object_id]
    /\ stored_story(object_stories, modal.object_id) = {modal.body}
    /\ StoryCallsInFlight(modal.object_id) = {}
    /\ \E q \in requests : q.op = "story" /\ q.state = "generating"

\* each cache holds at most one entry for an object, and once no call for an
\* object is in flight its entry is one of the generated texts
OneGeneratedEntry ==
    /\ \A id \in ObjectIds : Cardinality(stored_story(object_stories, id)) <= 1
    /\ \A row \in object_stories : row.story \in Texts
    /\ \A id \in DOMAIN storyCache :
          StoryCallsInFlight(id) = {} => storyCache[id] \in Texts

\* C16: when several misses for one object are in flight together each may
\* call the generator, but a cache never holds more than one entry for the
\* object, every write replaces the entry (the last writer wins), and once all
\* the requests are complete the entry is one of the generated texts.
C16_LastWriterWins ==
    [][ /\ \A q \in StoryAnswersReceived :
              HasStory(q) => storyCache'[q.arg] = q.result.body.story
        /\ \A q \in requests :
              (q.op = "story" /\ q.state = "generating" /\ q \notin requests'
                 /\ object_stories' # object_stories)
                  => \E p \in requests' :
                        /\ p.n = q.n /\ HasStory(p)
                        /\ stored_story(object_stories', q.arg) = {p.result.body.story}
        /\ OneGeneratedEntry'
      ]_vars

\* C17: the story cache never evicts: an object that has an entry has one in
\* every later state, whatever story requests, route builds and favorite
\* updates follow. The same holds for the rows of object_stories.
C17_NeverEvicts ==
    [][ /\ \A id \in DOMAIN storyCache : id \in DOMAIN storyCache'
        /\ \A row \in object_stories : stored_story(object_stories', row.object_id) # {}
      ]_vars

\* a story is cached, and since the page was loaded a second route was built
\* and a route was marked favorite
C17_Witness ==
    /\ DOMAIN storyCache # {}
    /\ object_stories # {}
    /\ Cardinality(DOMAIN routes) = 2
    /\ \E rid \in DOMAIN routes : routes[rid].is_favorite
    /\ panel # NoRoute /\ panel.route_id # 1

----------------------------------------------------------------------------
(* Properties of the route build request *)

\* objects_count is an integer in [2, 20] and the start coordinate is present
\* and within latitude [-90, 90] and longitude [-180, 180]
RequestValid(arg) ==
    /\ arg.count # NaN
    /\ arg.count >= MIN_OBJECTS /\ arg.count <= MAX_OBJECTS
    /\ arg.start.latitude # NaN /\ arg.start.longitude # NaN
    /\ arg.start.latitude >= -9000 /\ arg.start.latitude <= 9000
    /\ arg.start.longitude >= -18000 /\ arg.start.longitude <= 18000

\* the calls of POST /api/route a step sends
BuildCallsSent == { q \in requests' : q \notin requests /\ q.op = "build" }

\* C18: a build request with objects_count outside [2, 20] or not an integer,
\* or with a missing or out-of-range start coordinate, is rejected before any
\* API call is made and has no side effect: no call is sent for it, nothing is
\* persisted, and currentRoute and the drawn route stay as they were.
C18_InvalidRejected ==
    [][ /\ \A q \in BuildCallsSent : RequestValid(q.arg)
        /\ (\E q \in requests : q.op = "build" /\ ~RequestValid(q.arg)) =>
              UNCHANGED <<routes, route_objects, auto_increment>>
        /\ (~loading /\ BuildCallsSent = {} /\ message' # message) =>
              UNCHANGED <<store, currentRoute, panel, requests>>
      ]_vars

\* no heritage object lies within the radius of the start point
NoneInRadius(start) ==
    \A o \in heritage_objects : DistanceFrom(start, o) > Meters(MAX_RADIUS)

\* the valid build calls in flight whose start has no object within the radius
EmptyBuilds ==
    { q \in requests : /\ q.op = "build"
                       /\ ValidRequest(q.arg.start, q.arg.count)
                       /\ NoneInRadius(q.arg.start) }

\* C19: when no heritage object lies within 5000 m of the start, the lookup
\* returns the empty sequence, the build that reaches the handler is answered
\* 404 (any other answer is a call that failed on its way: 401 or 500 with no
\* handler step) and the page shows the error and goes on; no transaction is
\* opened and no header or leg is persisted.
C19_NothingInRadius ==
    [][ \A q \in EmptyBuilds :
          /\ find_nearest_objects(heritage_objects, q.arg.start, q.arg.count, MAX_RADIUS)
                = { <<>> }
          /\ UNCHANGED <<routes, route_objects, auto_increment>>
          /\ tx' = IdleTx
          /\ \/ resp' \in {resp, NoResp}
             \/ resp'.status = 404
             \/ ServeUnavailable(q, resp'.status)
          /\ ServeBuildRoute(q) => resp'.status = 404
          /\ q \notin requests' =>
                /\ resp.status \in {404, 401, 500}
                /\ message'.type = "error"
                /\ ~loading'
                /\ requests' = requests \ {q}
      ]_vars

\* the build from a start with nothing within the radius was answered 404
C19_Witness ==
    /\ EmptyBuilds # {}
    /\ resp.op = "create_route"
    /\ resp.status = 404
    /\ tx = IdleTx

----------------------------------------------------------------------------
(* Properties of the candidate locator *)

\* the objects within the radius of the call
InRadius ==
    { o \in heritage_objects : DistanceFrom(call.center, o) <= Meters(call.maxRadiusMeters) }

\* object a comes before object b: nearer, or as near with the smaller id
ComesBefore(a, b) ==
    \/ DistanceFrom(call.center, a) < DistanceFrom(call.center, b)
    \/ DistanceFrom(call.center, a) = DistanceFrom(call.center, b) /\ a < b

\* C20: findCandidates returns the min(maxResults, objects within the radius)
\* nearest objects within the radius, in ascending order of distance, equal
\* distances in ascending order of object id, and changes no state.
C20_FindCandidates ==
    call.state = "returned" =>
        /\ Len(call.result) = Min(call.maxResults, Cardinality(InRadius))
        /\ Range(call.result) \subseteq InRadius
        /\ \A i, j \in 1..Len(call.result) :
              i < j => ComesBefore(call.result[i], call.result[j])
        /\ \A o \in InRadius \ Range(call.result) :
              \A i \in 1..Len(call.result) : ComesBefore(call.result[i], o)
        /\ heritage_objects = ObjectIds /\ routes = << >> /\ route_objects = {}

----------------------------------------------------------------------------
(* Properties of the page: one build, one route *)

\* the calls of POST /api/route in flight
BuildCalls == { q \in requests : q.op = "build" }

\* C21: one invocation of buildRoute sends at most one POST /route, neither the
\* page nor the API client sends it again after a failure, and no sequence of
\* responses makes one request persist two routes.
C21_OneRoutePerRequest ==
    [][ /\ Cardinality(BuildCallsSent) <= 1
        /\ BuildCallsSent # {} => ~loading /\ loading' /\ BuildCalls = {}
        /\ Cardinality(BuildCalls) <= 1
        /\ (resp.op = "create_route" /\ resp'.op # "create_route") =>
              /\ BuildCalls # {}
              /\ \A q \in requests' : q.op # "build"
        /\ DOMAIN routes' # DOMAIN routes =>
              /\ BuildCalls # {}
              /\ Cardinality(DOMAIN routes') = Cardinality(DOMAIN routes) + 1
              /\ resp.op # "create_route" /\ resp'.op = "create_route"
      ]_vars

\* a route was built and kept, and a later build failed and was given up
C21_Witness ==
    /\ DOMAIN routes = {1}
    /\ message = [type |-> "error", text |-> "request failed"]
    /\ requests = {}
    /\ ~loading
    /\ tx = IdleTx

----------------------------------------------------------------------------
(* Properties of the distance function *)

\* C22: for all coordinate pairs a, b of the grid, distance(a, b) equals
\* distance(b, a), distance(a, a) is 0 and distance(a, b) is not negative.
C22_DistanceLaws ==
    call.state = "returned" =>
        /\ call.ab = call.ba
        /\ call.aa = 0
        /\ call.ab >= 0

\* the distance between two distinct points that differ in both coordinates
C22_Witness ==
    /\ call.state = "returned"
    /\ call.a.latitude < call.b.latitude
    /\ call.a.longitude > call.b.longitude
    /\ call.ab > 0

----------------------------------------------------------------------------
(* Properties of the API client *)

\* the last step was a request (login and register included)
Requested == call.op \in {"request", "login", "register"}

\* C23: a request that receives 401 logs the client out before it fails: token
\* and user are null, auth_token and user are gone from localStorage,
\* isAuthenticated() is false and the request throws; an error response other
\* than 401 throws and changes neither token nor user.
C23_LogoutOn401 ==
    [][ (call' # call /\ call'.op \in {"request", "login", "register"}) =>
          /\ call'.status = 401 =>
                /\ api' = [token |-> NULL, user |-> NULL]
                /\ localStorage' = [auth_token |-> NULL, user |-> NULL]
                /\ ~isAuthenticated(Session(api', localStorage'))
                /\ call'.state = "thrown"
          /\ call'.status \in {404, 500} =>
                /\ call'.state = "thrown"
                /\ UNCHANGED <<api, localStorage>>
      ]_vars

\* a client with a session has just been logged out by a 401
C23_Witness ==
    /\ call.state = "thrown" /\ call.op = "request" /\ call.status = 401
    /\ api.token = NULL /\ api.user = NULL
    /\ localStorage.auth_token = NULL /\ localStorage.user = NULL

\* the token in memory is the stored one, and it decides isAuthenticated()
SessionConsistent ==
    /\ api.token = localStorage.auth_token
    /\ isAuthenticated(Current) <=> localStorage.auth_token # NULL

\* C24: after any sequence of client operations the token in memory equals the
\* auth_token in localStorage (both absent or the same value) and
\* isAuthenticated() is true exactly when a token is stored; a login or
\* register that fails with a status other than 401 leaves token and user as
\* they were.
C24_TokenMirrorsStorage ==
    [][ /\ SessionConsistent'
        /\ (call' # call /\ call'.op \in {"login", "register"}
              /\ call'.state = "thrown" /\ call'.status # 401) =>
                 UNCHANGED <<api, localStorage>>
      ]_vars

\* a login failed with a server error and the session of the user is kept
C24_Witness ==
    /\ call = Called("login", 500, TRUE)
    /\ api.token \in Tokens
    /\ api.token = localStorage.auth_token
    /\ api.user \in Users

----------------------------------------------------------------------------
(* Properties of the page: the build button and the route on display *)

\* C25: every buildRoute or openSavedRoute that disabled the build button
\* re-enables it in the end: when its call has completed, with a route, with an
\* error, or with a route that could not be drawn, the button is enabled again
\* and shows its idle label.
C25_ButtonReenabled == loading ~> ~loading

\* a saved route arrived before the map was ready: drawing it threw, and the
\* button is enabled again
C25_Witness ==
    /\ ~loading
    /\ message = [type |-> "error", text |-> "display failed"]
    /\ currentRoute # NoRoute
    /\ requests = {}

\* the route-build and saved-route-load calls in flight
RouteCalls == { q \in requests : q.op \in {"build", "route"} }

\* C26: under any interleaving of buildRoute and openSavedRoute and their
\* responses, the build button is disabled in every state in which a
\* route-build or saved-route-load request is in flight.
C26_DisabledWhileInFlight == RouteCalls # {} => loading

\* the build or load calls whose failure the page receives in this step
FailuresReceived ==
    { q \in requests \ requests' :
        \/ q.op = "route" /\ q.state = "done" /\ q.result.status # 200
        \/ q.op = "build" /\ resp.op = "create_route" /\ resp.status # 201 }

\* whenever the panel is visible, currentRoute is the route on display
PanelShowsCurrentRoute ==
    panel # NoRoute =>
        /\ currentRoute # NoRoute
        /\ currentRoute = panel
        /\ markers = displayRoute(currentRoute, "ready").markers

\* C27: under any interleaving of buildRoute and openSavedRoute and their
\* responses, whenever the results panel is visible currentRoute is non-null
\* and is the route whose markers, line and cards are displayed; after a build
\* or load that fails, currentRoute is null and the panel is hidden.
C27_PanelMatchesCurrentRoute ==
    [][ /\ PanelShowsCurrentRoute'
        /\ FailuresReceived # {} => currentRoute' = NoRoute /\ panel' = NoRoute
      ]_vars

----------------------------------------------------------------------------
(* Properties of the page: the modal, the markers and the favorite button *)

\* C28: when story requests for different objects overlap, in every state in
\* which the modal body shows story text, the text is the story of the object
\* named in the modal title, the object opened last.
C28_ModalShowsItsObject ==
    (modal.open /\ modal.body \in Texts) =>
        /\ modal.object_id \in DOMAIN storyCache
        /\ storyCache[modal.object_id] = modal.body

\* C29: for every displayed route and every index i, the i-th marker, the card
\* with data-index i and currentRoute.objects[i] refer to the same heritage
\* object, whatever order the legs have in the route received.
C29_MarkersMatchCards ==
    panel # NoRoute =>
        /\ Len(markers) = Len(panel.objects)
        /\ \A i \in DOMAIN markers :
              /\ panel.objects[i].object_id = markers[i]
              /\ currentRoute # NoRoute => currentRoute.objects[i].object_id = markers[i]

\* C30: each click on the toggle-favorite button requests the negation of the
\* favorite flag of the route as the server stores it, whatever the timing of
\* the clicks, the responses and the reloads of the history.
C30_ToggleNegatesStoredFlag ==
    [][ \A q \in requests' \ requests :
          (q.op = "favorite" /\ q.then = "toggle" /\ q.arg \in DOMAIN routes) =>
              q.value = ~routes[q.arg].is_favorite
      ]_vars

====
